---------------------------- MODULE Spec2Model ----------------------------
(***************************************************************************)
(* A model of the version-resolution and artifact-matching engine of jkl   *)
(* (github.com/ivanfetch/jkl): the Github release-tag matcher of           *)
(* github.go, the asset matcher MatchAssetByOsAndArch, the derivation of   *)
(* a tool's name from its asset, sortVersions of util.go, the archive     *)
(* extractor and the sniffing reader of archives.go, the lookup of a       *)
(* Hashicorp release, the search of the ASDF configuration and the         *)
(* installing and uninstalling of managed tools.                           *)
(*                                                                         *)
(* Go strings are modelled by TLA+ strings; the i-th byte of s is          *)
(* SubSeq(s, i, i).  All strings of the model are ASCII, so a byte is a    *)
(* character.                                                              *)
(***************************************************************************)
EXTENDS Integers, Sequences, FiniteSets, TLC

(***************************************************************************)
(* Bounds of the model.                                                    *)
(***************************************************************************)
MaxReleases == 2
MaxAssets == 3

(***************************************************************************)
(* Strings: the package strings of the Go standard library, as used by     *)
(* github.go and util.go.                                                  *)
(***************************************************************************)

\* The characters of the model in ascending byte order: Go compares
\* strings byte-wise, so the position in this string orders two bytes as
\* their ASCII codes do.
Printable == " -.0123456789ABCDEFGHIJKLMNOPQRSTUVWXYZ_abcdefghijklmnopqrstuvwxyz"

UpperChars == "ABCDEFGHIJKLMNOPQRSTUVWXYZ"

LowerChars == "abcdefghijklmnopqrstuvwxyz"

DigitChars == "0123456789"

CharAt(s, i) == SubSeq(s, i, i)

CharsOf(s) == {CharAt(s, i) : i \in 1..Len(s)}

\* The byte of s at position i (1-based), "" past the ends of s.
ByteAt(s, i) == IF i \in 1..Len(s) THEN CharAt(s, i) ELSE ""

PositionIn(c, s) == CHOOSE i \in 1..Len(s) : CharAt(s, i) = c

\* The order of the bytes: ByteOrder[c] < ByteOrder[d] iff byte c < byte d.
ByteOrder == [c \in CharsOf(Printable) |-> PositionIn(c, Printable)]

\* unicode.ToLower on one ASCII character.
LowerOf == [c \in CharsOf(Printable) |->
              IF c \in CharsOf(UpperChars)
                THEN CharAt(LowerChars, PositionIn(c, UpperChars))
                ELSE c]

IsDigit(c) == c \in CharsOf(DigitChars)

IsLetter(c) == c \in CharsOf(UpperChars) \cup CharsOf(LowerChars)

\* strings.ToLower
RECURSIVE ToLower(_)
ToLower(s) ==
  IF s = "" THEN "" ELSE LowerOf[Head(s)] \o ToLower(Tail(s))

\* strings.HasPrefix
HasPrefix(s, prefix) ==
  /\ Len(prefix) <= Len(s)
  /\ SubSeq(s, 1, Len(prefix)) = prefix

\* strings.EqualFold, on ASCII strings.
EqualFold(s, t) == ToLower(s) = ToLower(t)

\* strings.Index: the 0-based index of the first occurrence of substr in
\* s, or -1.
Index(s, substr) ==
  LET at == {i \in 0..(Len(s) - Len(substr)) :
               SubSeq(s, i + 1, i + Len(substr)) = substr}
  IN IF at = {} THEN -1
     ELSE CHOOSE i \in at : \A j \in at : i <= j

\* strings.Contains
Contains(s, substr) == Index(s, substr) > -1

\* The comparison s < t of two Go strings: byte-wise lexicographic.
RECURSIVE StringLess(_, _)
StringLess(s, t) ==
  IF t = "" THEN FALSE
  ELSE IF s = "" THEN TRUE
  ELSE IF Head(s) # Head(t) THEN ByteOrder[Head(s)] < ByteOrder[Head(t)]
  ELSE StringLess(Tail(s), Tail(t))

\* Insert x into the ascending sequence sorted.
RECURSIVE InsertSorted(_, _)
InsertSorted(x, sorted) ==
  IF sorted = <<>> THEN <<x>>
  ELSE IF StringLess(Head(sorted), x)
    THEN <<Head(sorted)>> \o InsertSorted(x, Tail(sorted))
    ELSE <<x>> \o sorted

\* sort.Strings: the sequence in ascending byte-wise order.
RECURSIVE SortStrings(_)
SortStrings(a) ==
  IF a = <<>> THEN <<>> ELSE InsertSorted(Head(a), SortStrings(Tail(a)))


(***************************************************************************)
(* util.go: helpers of the matchers.                                       *)
(***************************************************************************)

\* toggleVPrefix: s without its leading "v"/"V", or with a "v" added.
toggleVPrefix(s) ==
  IF HasPrefix(ToLower(s), "v") THEN SubSeq(s, 2, Len(s)) ELSE "v" \o s

(***************************************************************************)
(* github.go: GithubReleases and the resolution of a version to a tag.     *)
(* A release is a record [ReleaseName, TagName, PreRelease]; a             *)
(* GithubReleases value is a sequence of releases, in the order of the     *)
(* Github API response.                                                    *)
(***************************************************************************)

\* The result ("", false) / (tag, true) of the tag look-ups.
NotFound == [tag |-> "", found |-> FALSE]

Found(t) == [tag |-> t, found |-> TRUE]

\* GithubReleases.tagForReleaseName: the tag of the first release, in list
\* order, whose name equals wantName case-insensitively.
RECURSIVE tagForReleaseName(_, _)
tagForReleaseName(g, wantName) ==
  IF g = <<>> THEN NotFound
  ELSE IF EqualFold(Head(g).ReleaseName, wantName) THEN Found(Head(g).TagName)
  ELSE tagForReleaseName(Tail(g), wantName)

\* GithubReleases.tagExists: the tag of the first release, in list order,
\* whose tag equals wantTag case-insensitively.
RECURSIVE tagExists(_, _)
tagExists(g, wantTag) ==
  IF g = <<>> THEN NotFound
  ELSE IF EqualFold(Head(g).TagName, wantTag) THEN Found(Head(g).TagName)
  ELSE tagExists(Tail(g), wantTag)

\* The character class [a-zA-Z-_] of stripPrefixRE.
StripClass(c) == IsLetter(c) \/ c = "-" \/ c = "_"

\* \d+\..* matches s from position p on: a non-empty run of digits that is
\* followed by a dot (.* takes the rest, the model has no newline).
DigitsDotFrom(s, p) ==
  \E q \in p..(Len(s) - 1) :
     /\ \A k \in p..q : IsDigit(CharAt(s, k))
     /\ CharAt(s, q + 1) = "."

\* stripPrefixRE.FindStringSubmatch(s) for ^[a-zA-Z-_]+(v?\d+\..*) :
\* the lengths l of a prefix [a-zA-Z-_]+ after which the group matches; the
\* greedy + prefers the longest.  The result is the group, or no match.
stripPrefixRE(s) ==
  LET prefixes == {l \in 1..Len(s) :
                     /\ \A k \in 1..l : StripClass(CharAt(s, k))
                     /\ \/ DigitsDotFrom(s, l + 1)
                        \/ /\ l < Len(s)
                           /\ CharAt(s, l + 1) = "v"
                           /\ DigitsDotFrom(s, l + 2)}
  IN IF prefixes = {} THEN [matched |-> FALSE, group |-> ""]
     ELSE LET l == CHOOSE l \in prefixes : \A m \in prefixes : m <= l
          IN [matched |-> TRUE, group |-> SubSeq(s, l + 1, Len(s))]

\* The tags scanned by MatchTagFromPartialVersion: tags[i] is the tag of
\* release i, left "" for a pre-release, and the whole is sorted by
\* sort.Strings.
PartialVersionTags(g) ==
  SortStrings([i \in 1..Len(g) |->
                 IF ~g[i].PreRelease THEN g[i].TagName ELSE ""])

\* The first loop: for i := len(tags)-1; i >= 0; i--, called with i = the
\* (1-based) index to look at next.
RECURSIVE ScanDirect(_, _, _)
ScanDirect(tags, LCPV, i) ==
  IF i < 1 THEN NotFound
  ELSE LET LCThisTag == ToLower(tags[i])
       IN IF HasPrefix(LCThisTag, LCPV) \/ HasPrefix(LCThisTag, "v" \o LCPV)
            THEN Found(tags[i])
            ELSE ScanDirect(tags, LCPV, i - 1)

\* The second loop: the same scan over the tags with their extraneous
\* prefix stripped.
RECURSIVE ScanStripped(_, _, _)
ScanStripped(tags, LCPV, i) ==
  IF i < 1 THEN NotFound
  ELSE LET LCThisTag == ToLower(tags[i])
           strippedMatches == stripPrefixRE(LCThisTag)
           strippedTag == strippedMatches.group
       IN IF ~strippedMatches.matched
            THEN ScanStripped(tags, LCPV, i - 1)
          ELSE IF HasPrefix(strippedTag, LCPV) \/ HasPrefix(strippedTag, "v" \o LCPV)
            THEN Found(tags[i])
            ELSE ScanStripped(tags, LCPV, i - 1)

\* MatchTagFromPartialVersion with its two loops in the other order: the
\* stripped tags are tried before the tags themselves.
MatchTagStrippedFirst(g, pv) ==
  LET tags == PartialVersionTags(g)
      LCPV == ToLower(pv)
      stripped == ScanStripped(tags, LCPV, Len(tags))
  IN IF stripped.found THEN stripped
     ELSE ScanDirect(tags, LCPV, Len(tags))

\* GithubReleases.MatchTagFromPartialVersion
MatchTagFromPartialVersion(g, pv) ==
  LET tags == PartialVersionTags(g)
      LCPV == ToLower(pv)
      direct == ScanDirect(tags, LCPV, Len(tags))
  IN IF direct.found THEN direct
     ELSE ScanStripped(tags, LCPV, Len(tags))

\* The outcome (tag, found, err) of findTagForVersion; err = "" is nil.
TagResult(t, f, e) == [tag |-> t, found |-> f, err |-> e]

\* TagCascade with the display names looked up before the tags.
TagCascadeNamesFirst(APIResp, version) ==
  LET s1 == tagForReleaseName(APIResp, version)
      s2 == tagForReleaseName(APIResp, toggleVPrefix(version))
      s3 == tagExists(APIResp, version)
      s4 == tagExists(APIResp, toggleVPrefix(version))
      s5 == MatchTagFromPartialVersion(APIResp, version)
  IN IF s1.found THEN TagResult(s1.tag, TRUE, "")
     ELSE IF s2.found THEN TagResult(s2.tag, TRUE, "")
     ELSE IF s3.found THEN TagResult(s3.tag, TRUE, "")
     ELSE IF s4.found THEN TagResult(s4.tag, TRUE, "")
     ELSE IF s5.found THEN TagResult(s5.tag, TRUE, "")
     ELSE TagResult("", FALSE, "")

\* The body of findTagForVersion after the release list was decoded: the
\* look-ups in their order, the first that finds a tag returning it.
TagCascade(APIResp, version) ==
  LET s1 == tagExists(APIResp, version)
      s2 == tagExists(APIResp, toggleVPrefix(version))
      s3 == tagForReleaseName(APIResp, version)
      s4 == tagForReleaseName(APIResp, toggleVPrefix(version))
      s5 == MatchTagFromPartialVersion(APIResp, version)
  IN IF s1.found THEN TagResult(s1.tag, TRUE, "")
     ELSE IF s2.found THEN TagResult(s2.tag, TRUE, "")
     ELSE IF s3.found THEN TagResult(s3.tag, TRUE, "")
     ELSE IF s4.found THEN TagResult(s4.tag, TRUE, "")
     ELSE IF s5.found THEN TagResult(s5.tag, TRUE, "")
     ELSE TagResult("", FALSE, "")

\* GithubRepo.findTagForVersion.  latest is the answer of the Github API
\* to GetTagForLatestRelease and list its answer to /releases, each a
\* record with the error ("" for none) and the decoded body.
findTagForVersion(version, latest, list) ==
  IF version = "" \/ EqualFold(version, "latest")
    THEN IF latest.err # "" THEN TagResult("", FALSE, latest.err)
         ELSE TagResult(latest.tag, TRUE, "")
  ELSE IF list.err # "" THEN TagResult("", FALSE, list.err)
  ELSE IF Len(list.releases) = 0 THEN TagResult("", FALSE, "there are no releases")
  ELSE TagCascade(list.releases, version)

\* GithubRepo.DownloadReleaseForVersion.  download is the outcome of
\* DownloadReleaseForTag for the tag it is called with.  The result holds
\* the values returned and the tags DownloadReleaseForTag was called for.
DownloadReleaseForVersion(version, latest, list, download) ==
  LET r == findTagForVersion(version, latest, list)
  IN IF r.err # ""
       THEN [binaryPath |-> "", matchedTag |-> "", assetBaseName |-> "",
             err |-> r.err, downloads |-> <<>>]
     ELSE IF ~r.found
       THEN [binaryPath |-> "", matchedTag |-> "", assetBaseName |-> "",
             err |-> "no tag found matching version " \o version,
             downloads |-> <<>>]
     ELSE [binaryPath |-> download.path, matchedTag |-> r.tag,
           assetBaseName |-> download.name,
           err |-> download.err, downloads |-> <<r.tag>>]

(***************************************************************************)
(* github.go, util.go: the match of a release asset to an operating        *)
(* system and an architecture.  An asset is a record [Name, URL].          *)
(***************************************************************************)

\* stringContainsOneOf (util.go; MatchAssetByOsAndArch calls it as
\* stringContainsOneOfLowerCase): the substrings are firstSubstr followed
\* by additionalSubstrs, looked for from the last one to the first, called
\* with i = the (1-based) index to look at next.  The match returned is
\* cut out of s itself, not out of its lower-cased form.
RECURSIVE ScanSubstrings(_, _, _)
ScanSubstrings(s, allSubStrings, i) ==
  IF i < 1 THEN [match |-> "", found |-> FALSE]
  ELSE LET matchedIndex == Index(ToLower(s), ToLower(allSubStrings[i]))
       IN IF matchedIndex > -1
            THEN [match |-> SubSeq(s, matchedIndex + 1,
                                   matchedIndex + Len(allSubStrings[i])),
                  found |-> TRUE]
            ELSE ScanSubstrings(s, allSubStrings, i - 1)

stringContainsOneOf(s, firstSubstr, additionalSubstrs) ==
  LET allSubStrings == <<firstSubstr>> \o additionalSubstrs
  IN ScanSubstrings(s, allSubStrings, Len(allSubStrings))

\* getAliasesForArchitecture
getAliasesForArchitecture(arch) ==
  IF ToLower(arch) = "amd64"
    THEN <<"x86_64", "64bit", "64-bit", "universal">>
    ELSE <<>>

\* getAliasesForOperatingSystem
getAliasesForOperatingSystem(OS) ==
  IF ToLower(OS) = "darwin"
    THEN <<"macos", "osx", "apple-darwin">>
    ELSE <<>>

\* GithubAsset{}
NoAsset == [Name |-> "", URL |-> ""]

AssetResult(asset, os, arch, ok) ==
  [matchedAsset |-> asset, matchedOS |-> os, matchedArch |-> arch,
   successfulMatch |-> ok]

\* The loop of MatchAssetByOsAndArch returning the last asset that matches
\* instead of the first.
RECURSIVE ScanAssetsLast(_, _, _, _)
ScanAssetsLast(list, OS, arch, i) ==
  IF i > Len(list) THEN AssetResult(NoAsset, "", "", FALSE)
  ELSE LET asset == list[i]
           later == ScanAssetsLast(list, OS, arch, i + 1)
           os == stringContainsOneOf(asset.Name, OS,
                                     getAliasesForOperatingSystem(OS))
           ar == stringContainsOneOf(asset.Name, arch,
                                     getAliasesForArchitecture(arch))
       IN IF later.successfulMatch THEN later
          ELSE IF os.found /\ ar.found
            THEN AssetResult(asset, os.match, ar.match, TRUE)
          ELSE IF /\ EqualFold(OS, "linux")
                  /\ EqualFold(arch, "amd64")
                  /\ Contains(ToLower(asset.Name), "linux64")
            THEN AssetResult(asset, "linux64", "linux64", TRUE)
          ELSE later

\* The loop of MatchAssetByOsAndArch accepting "linux64" for every target.
RECURSIVE ScanAssetsLinux64Always(_, _, _, _)
ScanAssetsLinux64Always(list, OS, arch, i) ==
  IF i > Len(list) THEN AssetResult(NoAsset, "", "", FALSE)
  ELSE LET asset == list[i]
           os == stringContainsOneOf(asset.Name, OS,
                                     getAliasesForOperatingSystem(OS))
           ar == stringContainsOneOf(asset.Name, arch,
                                     getAliasesForArchitecture(arch))
       IN IF os.found /\ ar.found
            THEN AssetResult(asset, os.match, ar.match, TRUE)
          ELSE IF Contains(ToLower(asset.Name), "linux64")
            THEN AssetResult(asset, "linux64", "linux64", TRUE)
          ELSE ScanAssetsLinux64Always(list, OS, arch, i + 1)

\* The loop of MatchAssetByOsAndArch over the assets from index i on; the
\* result has successfulMatch = FALSE when the loop ends without a return.
RECURSIVE ScanAssets(_, _, _, _)
ScanAssets(list, OS, arch, i) ==
  IF i > Len(list) THEN AssetResult(NoAsset, "", "", FALSE)
  ELSE LET asset == list[i]
           os == stringContainsOneOf(asset.Name, OS,
                                     getAliasesForOperatingSystem(OS))
           ar == stringContainsOneOf(asset.Name, arch,
                                     getAliasesForArchitecture(arch))
       IN IF os.found /\ ar.found
            THEN AssetResult(asset, os.match, ar.match, TRUE)
          ELSE IF /\ EqualFold(OS, "linux")
                  /\ EqualFold(arch, "amd64")
                  /\ Contains(ToLower(asset.Name), "linux64")
            THEN AssetResult(asset, "linux64", "linux64", TRUE)
          ELSE ScanAssets(list, OS, arch, i + 1)

\* MatchAssetByOsAndArch retrying with amd64 for arm64 on every operating
\* system.
MatchAssetFallbackAnyOS(list, OS, arch) ==
  LET scanned == ScanAssets(list, OS, arch, 1)
  IN IF scanned.successfulMatch THEN scanned
     ELSE IF EqualFold(arch, "arm64")
       THEN ScanAssets(list, OS, "amd64", 1)
     ELSE AssetResult(NoAsset, "", "", FALSE)

\* MatchAssetByOsAndArch
RECURSIVE MatchAssetByOsAndArch(_, _, _)
MatchAssetByOsAndArch(list, OS, arch) ==
  LET scanned == ScanAssets(list, OS, arch, 1)
  IN IF scanned.successfulMatch THEN scanned
     ELSE IF EqualFold(OS, "darwin") /\ EqualFold(arch, "arm64")
       THEN MatchAssetByOsAndArch(list, OS, "amd64")
     ELSE AssetResult(NoAsset, "", "", FALSE)

(***************************************************************************)
(* The state: the answers of the Github API (the releases of the           *)
(* repository, the assets of the release), the call made and its result.   *)
(* Every function of the engine is a self-contained invocation: a          *)
(* behaviour is the state before the call followed by the state after it.  *)
(***************************************************************************)
VARIABLES
  releases,   \* the GithubReleases the API lists for the repository
  assets,     \* the []GithubAsset the API lists for the release
  files,      \* the directory of the file to extract: path |-> content
  call,       \* the call made: its name, arguments and API answers
  result      \* the values the call returned

vars == <<releases, assets, files, call, result>>

Release(name, tag, pre) ==
  [ReleaseName |-> name, TagName |-> tag, PreRelease |-> pre]

\* The releases a repository of the model may list.
ReleaseUniverse ==
  { Release("1.9.0", "1.9.0", FALSE),
    Release("1.10.0", "1.10.0", FALSE),
    Release("1.0.3-rc1", "1.0.3-rc1", TRUE),
    Release("1.11.0-rc1", "1.11.0-rc1", FALSE),
    Release("jq 1.6", "jq-1.6", FALSE),
    Release("1.6", "v2.0.1", FALSE),
    Release("Stable", "1.6.0", FALSE),
    Release("stable", "V1.9.0", FALSE),
    Release("release with no version", "", FALSE),
    Release("jq-1.6", "3.0.0", FALSE) }

\* The sequences over S of length at most n.
SeqsUpTo(S, n) == UNION {[1..k -> S] : k \in 0..n}

\* The versions asked for.
Requests ==
  {"", "latest", "1", "1.6", "v1.9.0", "stable", "jq-1.6", "4"}

IsLatest(version) == version = "" \/ EqualFold(version, "latest")

\* An API request the call did not make has no answer.
NoAnswer == [err |-> "not requested"]

\* The answers of GetTagForLatestRelease: an error, or the tag of a
\* release that is not a pre-release.
LatestAnswers(g) ==
  {[err |-> "HTTP 404 for /releases/latest", tag |-> ""]}
    \cup {[err |-> "", tag |-> g[i].TagName] :
            i \in {j \in 1..Len(g) : ~g[j].PreRelease}}

\* The answers to GET /releases: an error, or the list.
ListAnswers(g) ==
  {[err |-> "HTTP 500 for /releases", releases |-> <<>>],
   [err |-> "", releases |-> g]}

\* The outcomes of DownloadReleaseForTag.
DownloadAnswers ==
  {[err |-> "no asset found", path |-> "", name |-> ""],
   [err |-> "", path |-> "/tmp/jkl/asset", name |-> "asset"]}

NoCall == [op |-> "none"]

InitTags ==
  /\ releases \in SeqsUpTo(ReleaseUniverse, MaxReleases)
  /\ assets = <<>>
  /\ files = <<>>
  /\ call = NoCall
  /\ result = NoCall

\* A call of GithubReleases.MatchTagFromPartialVersion.
CallMatchTagFromPartialVersion ==
  /\ call = NoCall
  /\ \E pv \in Requests :
       /\ call' = [op |-> "MatchTagFromPartialVersion", version |-> pv]
       /\ result' = MatchTagFromPartialVersion(releases, pv)
  /\ UNCHANGED <<releases, assets, files>>

\* A call of GithubRepo.findTagForVersion.
CallFindTagForVersion ==
  /\ call = NoCall
  /\ \E version \in Requests :
       \E latest \in (IF IsLatest(version) THEN LatestAnswers(releases)
                      ELSE {NoAnswer}),
          list \in (IF IsLatest(version) THEN {NoAnswer}
                    ELSE ListAnswers(releases)) :
         /\ call' = [op |-> "findTagForVersion", version |-> version,
                     latest |-> latest, list |-> list]
         /\ result' = findTagForVersion(version, latest, list)
  /\ UNCHANGED <<releases, assets, files>>

\* A call of GithubRepo.DownloadReleaseForVersion.
CallDownloadReleaseForVersion ==
  /\ call = NoCall
  /\ \E version \in Requests :
       \E latest \in (IF IsLatest(version) THEN LatestAnswers(releases)
                      ELSE {NoAnswer}),
          list \in (IF IsLatest(version) THEN {NoAnswer}
                    ELSE ListAnswers(releases)) :
         \E download \in (IF findTagForVersion(version, latest, list).found
                          THEN DownloadAnswers ELSE {NoAnswer}) :
           /\ call' = [op |-> "DownloadReleaseForVersion",
                       version |-> version, latest |-> latest,
                       list |-> list, download |-> download]
           /\ result' = DownloadReleaseForVersion(version, latest, list,
                                                  download)
  /\ UNCHANGED <<releases, assets, files>>

NextTags ==
  \/ CallMatchTagFromPartialVersion
  \/ CallFindTagForVersion
  \/ CallDownloadReleaseForVersion

\* The resolution of a version to a release tag.
SpecTags == InitTags /\ [][NextTags]_vars

Asset(name, url) == [Name |-> name, URL |-> url]

\* The assets a release of the model may list.
AssetUniverse ==
  { Asset("checksums.txt", "assets/1"),
    Asset("prme_0.0.6_Darwin_x86_64.tar.gz", "assets/2"),
    Asset("prme_0.0.6_Linux_arm64.tar.gz", "assets/3"),
    Asset("tool-Linux64.tar.gz", "assets/4"),
    Asset("app-darwin-arm64", "assets/5"),
    Asset("app-macos-universal", "assets/6"),
    Asset("app_universal_darwin_amd64", "assets/7"),
    Asset("app_linux_amd64", "assets/8") }

\* The (OS, arch) pairs asked for.
Targets ==
  { <<"darwin", "amd64">>, <<"darwin", "arm64">>, <<"Darwin", "ARM64">>,
    <<"linux", "amd64">>, <<"Linux", "AMD64">>, <<"linux", "arm64">>,
    <<"windows", "amd64">> }

InitAssets ==
  /\ releases = <<>>
  /\ assets \in SeqsUpTo(AssetUniverse, MaxAssets)
  /\ files = <<>>
  /\ call = NoCall
  /\ result = NoCall

\* A call of MatchAssetByOsAndArch.
CallMatchAssetByOsAndArch ==
  /\ call = NoCall
  /\ \E target \in Targets :
       /\ call' = [op |-> "MatchAssetByOsAndArch",
                   OS |-> target[1], arch |-> target[2]]
       /\ result' = MatchAssetByOsAndArch(assets, target[1], target[2])
  /\ UNCHANGED <<releases, assets, files>>

NextAssets == CallMatchAssetByOsAndArch

\* The match of an asset to a platform.
SpecAssets == InitAssets /\ [][NextAssets]_vars

(***************************************************************************)
(* The order of versions that sortVersions sorts by (util.go): the one of  *)
(* hashicorp/go-version on well-formed versions v?N(.N)*[-prerelease],     *)
(* numeric per component, a version with a pre-release part coming before  *)
(* the same version without one.                                           *)
(***************************************************************************)

\* strings.Split(s, sep) for a one-character sep.
RECURSIVE Split(_, _)
Split(s, sep) ==
  LET i == Index(s, sep)
  IN IF i = -1 THEN <<s>>
     ELSE <<SubSeq(s, 1, i)>> \o Split(SubSeq(s, i + 2, Len(s)), sep)

IsNumber(s) == s # "" /\ \A k \in 1..Len(s) : IsDigit(CharAt(s, k))

\* strconv.ParseInt on a run of digits.
RECURSIVE ParseInt(_)
ParseInt(s) ==
  IF s = "" THEN 0
  ELSE ParseInt(SubSeq(s, 1, Len(s) - 1)) * 10
         + (PositionIn(CharAt(s, Len(s)), DigitChars) - 1)

\* The version without its optional leading "v".
VersionBody(v) == IF HasPrefix(v, "v") THEN Tail(v) ELSE v

\* The length of the longest prefix [0-9]+(\.[0-9]+)* of u that extends
\* its prefix of that form of length n (n = 0: none yet).
RECURSIVE DottedNumberLen(_, _)
DottedNumberLen(u, n) ==
  IF IsDigit(ByteAt(u, n + 1)) THEN DottedNumberLen(u, n + 1)
  ELSE IF n > 0 /\ ByteAt(u, n + 1) = "." /\ IsDigit(ByteAt(u, n + 2))
    THEN DottedNumberLen(u, n + 2)
  ELSE n

\* The numeric part of the version: the longest prefix of the body that is
\* a dotted number (no shorter one lets the rest of the pattern match).
VersionCore(v) ==
  SubSeq(VersionBody(v), 1, DottedNumberLen(VersionBody(v), 0))

\* What follows the numeric part.
VersionRest(v) ==
  SubSeq(VersionBody(v), Len(VersionCore(v)) + 1, Len(VersionBody(v)))

\* Version.Prerelease(): the rest without the dash that introduces it.
Prerelease(v) ==
  LET rest == VersionRest(v)
  IN IF Len(rest) > 1 /\ Head(rest) = "-" THEN Tail(rest) ELSE rest

HasPreReleasePart(v) == Prerelease(v) # ""

\* A byte of a pre-release identifier: [0-9A-Za-z-].
IsIdentifierChar(c) == IsDigit(c) \/ IsLetter(c) \/ c = "-"

\* hashicorpversion.NewVersion(v) returns no error: v is
\* v?N(.N)*, optionally followed by a pre-release of dot-separated
\* identifiers, with or without a dash before it.
WellFormedVersion(v) ==
  /\ VersionCore(v) # ""
  /\ \/ VersionRest(v) = ""
     \/ \A i \in DOMAIN Split(Prerelease(v), ".") :
          LET part == Split(Prerelease(v), ".")[i]
          IN /\ part # ""
             /\ \A k \in 1..Len(part) : IsIdentifierChar(CharAt(part, k))

\* The i-th numeric component of v, 0 when v has fewer components.
Segment(v, i) ==
  LET segs == Split(VersionCore(v), ".")
  IN IF i <= Len(segs) THEN ParseInt(segs[i]) ELSE 0

\* The number of components NewVersion keeps: at least three.
SegmentCount(v) ==
  LET n == Len(Split(VersionCore(v), "."))
  IN IF n < 3 THEN 3 ELSE n

\* comparePart(x, y) < 0 of go-version, for two different identifiers of a
\* pre-release: a number before a word, numbers by value, words byte-wise;
\* a missing identifier ("") before a number and after a word.
PartLess(x, y) ==
  IF x = "" THEN IsNumber(y)
  ELSE IF y = "" THEN ~IsNumber(x)
  ELSE IF IsNumber(x) /\ ~IsNumber(y) THEN TRUE
  ELSE IF ~IsNumber(x) /\ IsNumber(y) THEN FALSE
  ELSE IF ~IsNumber(x) THEN StringLess(x, y)
  ELSE ParseInt(x) <= ParseInt(y)

\* comparePrereleases(p, q) < 0: the first identifier that differs decides.
PrereleaseLess(p, q) ==
  LET ps == Split(p, ".")
      qs == Split(q, ".")
      n == IF Len(ps) < Len(qs) THEN Len(qs) ELSE Len(ps)
      at(parts, i) == IF i <= Len(parts) THEN parts[i] ELSE ""
  IN \E i \in 1..n :
       /\ at(ps, i) # at(qs, i)
       /\ \A j \in 1..(i - 1) : at(ps, j) = at(qs, j)
       /\ PartLess(at(ps, i), at(qs, i))

\* Version.LessThan on two well-formed versions: numeric per component; of
\* two versions with the same components the one with a pre-release comes
\* first, two pre-releases in the order of their identifiers.
VersionLess(a, b) ==
  LET n == IF SegmentCount(a) < SegmentCount(b) THEN SegmentCount(b)
           ELSE SegmentCount(a)
  IN \/ \E i \in 1..n :
          /\ Segment(a, i) < Segment(b, i)
          /\ \A j \in 1..(i - 1) : Segment(a, j) = Segment(b, j)
     \/ /\ \A i \in 1..n : Segment(a, i) = Segment(b, i)
        /\ SegmentCount(a) = SegmentCount(b)
        /\ \/ HasPreReleasePart(a) /\ ~HasPreReleasePart(b)
           \/ /\ HasPreReleasePart(a)
              /\ HasPreReleasePart(b)
              /\ PrereleaseLess(Prerelease(a), Prerelease(b))

(***************************************************************************)
(* The claims about the resolution of a version to a tag (SpecTags).       *)
(***************************************************************************)

\* A tag matches the partial version pv directly.
DirectMatch(t, pv) ==
  \/ HasPrefix(ToLower(t), ToLower(pv))
  \/ HasPrefix(ToLower(t), "v" \o ToLower(pv))

\* The tags of the releases of g that are not flagged as pre-releases.
ReleasedTags(g) == {g[i].TagName : i \in {j \in 1..Len(g) : ~g[j].PreRelease}}

\* The tags of MatchTagFromPartialVersion's list: those, and the "" that
\* stands in the list for every pre-release.
ScannedTags(g) ==
  ReleasedTags(g) \cup {"" : i \in {j \in 1..Len(g) : g[j].PreRelease}}

\* t is at least as new as every tag of the set, in the order sortVersions
\* puts the tags of g in: by version when all of them are well-formed,
\* byte-wise otherwise.
NewestOf(t, set, g) ==
  IF \A u \in ReleasedTags(g) : u # "" /\ WellFormedVersion(u)
    THEN \A c \in set : ~VersionLess(t, c)
    ELSE \A c \in set : ~StringLess(t, c)

MatchCalled == call.op = "MatchTagFromPartialVersion"

\* C1: for a non-empty partial version that some non-prerelease tag matches
\* directly, MatchTagFromPartialVersion finds the matching tag that is
\* newest in the version order of sortVersions (numeric per component).
C1_NewestVersionMatched ==
  LET cands == {t \in ReleasedTags(releases) : DirectMatch(t, call.version)}
  IN (MatchCalled /\ call.version # "" /\ cands # {}) =>
       /\ result.found
       /\ result.tag \in cands
       /\ NewestOf(result.tag, cands, releases)

\* A tag that names a pre-release in its text.
LooksPreRelease(t) ==
  \/ Contains(ToLower(t), "-rc")
  \/ Contains(ToLower(t), "-alpha")
  \/ Contains(ToLower(t), "-beta")

\* C2: the tag MatchTagFromPartialVersion returns is neither the tag of a
\* release flagged as a pre-release nor a tag containing "-rc", "-alpha" or
\* "-beta".
C2_NoPreReleaseMatched ==
  (MatchCalled /\ result.found) =>
    /\ \A i \in 1..Len(releases) :
         releases[i].PreRelease => releases[i].TagName # result.tag
    /\ ~LooksPreRelease(result.tag)

\* A tag matches pv once its leading letters, dashes and underscores are
\* stripped: it is <prefix><rest>, the prefix non-empty and made of those
\* characters only, the rest starting with digits and a dot and matching
\* pv.
StrippedMatch(t, pv) ==
  \E l \in 1..(Len(t) - 1) :
     /\ \A k \in 1..l : StripClass(CharAt(t, k))
     /\ DigitsDotFrom(t, l + 1)
     /\ DirectMatch(SubSeq(t, l + 1, Len(t)), pv)

\* C3: a tag that matches the partial version directly wins over a tag
\* that matches only with its prefix stripped; when none matches directly,
\* a tag that matches once stripped is found, and the tag found is a tag of
\* the list in its unstripped form.
C3_DirectMatchFirst ==
  LET direct == {t \in ScannedTags(releases) : DirectMatch(t, call.version)}
      stripped == {t \in ScannedTags(releases) :
                     StrippedMatch(t, call.version)}
  IN MatchCalled =>
       /\ direct # {} => result.found /\ result.tag \in direct
       /\ direct = {} => result.found = (stripped # {})
       /\ (direct = {} /\ result.found) => result.tag \in stripped

\* C3, its case: "1.6" is asked for, a tag matches directly, "jq-1.6"
\* matches stripped only and sorts after it.
C3_Witness ==
  /\ MatchCalled
  /\ call.version = "1.6"
  /\ result = Found("1.6.0")
  /\ "jq-1.6" \in ReleasedTags(releases)

FindCalled == call.op = "findTagForVersion"

DownloadCalled == call.op = "DownloadReleaseForVersion"

\* The tags of the releases of g whose tag, or whose display name, equals
\* w case-insensitively.
TagsEqual(g, w) ==
  {g[i].TagName : i \in {j \in 1..Len(g) : EqualFold(g[j].TagName, w)}}

TagsNamed(g, w) ==
  {g[i].TagName : i \in {j \in 1..Len(g) : EqualFold(g[j].ReleaseName, w)}}

\* The steps of the resolution of version w over g, in their order: each
\* is the set of tags the step may find.
ResolutionSteps(g, w) ==
  << TagsEqual(g, w),
     TagsEqual(g, toggleVPrefix(w)),
     TagsNamed(g, w),
     TagsNamed(g, toggleVPrefix(w)),
     IF MatchTagFromPartialVersion(g, w).found
       THEN {MatchTagFromPartialVersion(g, w).tag} ELSE {} >>

\* The release list was fetched and the steps were gone through.
StepsTaken ==
  /\ ~IsLatest(call.version)
  /\ call.list.err = ""
  /\ releases # <<>>

Reorderings(g) ==
  {[i \in 1..Len(g) |-> g[f[i]]] :
     f \in {h \in [1..Len(g) -> 1..Len(g)] :
              \A i, j \in 1..Len(g) : h[i] = h[j] => i = j}}

\* C5: the tag resolved does not depend on the order of the release list,
\* for MatchTagFromPartialVersion and for the whole of findTagForVersion.
C5_OrderIndependent ==
  /\ MatchCalled =>
       \A g \in Reorderings(releases) :
          MatchTagFromPartialVersion(g, call.version) = result
  /\ (FindCalled /\ StepsTaken) =>
       \A g \in Reorderings(releases) :
          findTagForVersion(call.version, call.latest,
                            [call.list EXCEPT !.releases = g]) = result

(***************************************************************************)
(* The claims about the match of an asset (SpecAssets).                    *)
(***************************************************************************)

AssetCalled == call.op = "MatchAssetByOsAndArch"

\* The tokens an operating system, an architecture is looked for by: its
\* lower-cased name and its aliases.
OSTokens(OS) ==
  {ToLower(OS)} \cup
    (IF ToLower(OS) = "darwin" THEN {"macos", "osx", "apple-darwin"} ELSE {})

ArchTokens(arch) ==
  {ToLower(arch)} \cup
    (IF ToLower(arch) = "amd64"
       THEN {"x86_64", "64bit", "64-bit", "universal"} ELSE {})

\* The name holds a token of the operating system and one of the
\* architecture.
TokensMatch(name, OS, arch) ==
  /\ \E t \in OSTokens(OS) : Contains(ToLower(name), t)
  /\ \E t \in ArchTokens(arch) : Contains(ToLower(name), t)

\* The name matches linux/amd64 by the combined token "linux64".
ComboMatch(name, OS, arch) ==
  /\ ToLower(OS) = "linux"
  /\ ToLower(arch) = "amd64"
  /\ Contains(ToLower(name), "linux64")

AssetMatches(name, OS, arch) ==
  TokensMatch(name, OS, arch) \/ ComboMatch(name, OS, arch)

\* The indexes of the assets that match the target.
Matching(list, OS, arch) ==
  {i \in 1..Len(list) : AssetMatches(list[i].Name, OS, arch)}

IsDarwinArm64(OS, arch) == ToLower(OS) = "darwin" /\ ToLower(arch) = "arm64"

\* The indexes of the assets that match darwin/amd64, when the target is
\* darwin/arm64.
MatchingFallback(list, OS, arch) ==
  IF IsDarwinArm64(OS, arch) THEN Matching(list, OS, "amd64") ELSE {}

Lowest(S) == CHOOSE i \in S : \A j \in S : i <= j

\* C6: MatchAssetByOsAndArch returns the earliest asset of the list that
\* matches the target; an asset it returns is an asset of the list that
\* matches the target or the darwin/amd64 fallback target.
C6_EarliestMatchingAsset ==
  LET m == Matching(assets, call.OS, call.arch)
      fb == MatchingFallback(assets, call.OS, call.arch)
  IN AssetCalled =>
       /\ m # {} =>
            /\ result.successfulMatch
            /\ result.matchedAsset = assets[Lowest(m)]
       /\ result.successfulMatch =>
            \E i \in m \cup fb : result.matchedAsset = assets[i]

\* C6, its case: two different assets of the list match the target and
\* the first of them is returned.
C6_Witness ==
  LET m == Matching(assets, call.OS, call.arch)
  IN /\ AssetCalled
     /\ \E i, j \in m : i < j /\ assets[i] # assets[j]
     /\ Lowest(m) > 1
     /\ result.successfulMatch
     /\ result.matchedAsset = assets[Lowest(m)]

\* C7: the matched OS and architecture returned are substrings of the name
\* of the asset returned, in the letter case of the name, and each equals,
\* case-insensitively, the token of the target (amd64 after the
\* darwin/arm64 fallback) or one of its aliases.
C7_MatchedTokensLiteral ==
  LET archs == IF TokensMatch(result.matchedAsset.Name, call.OS, call.arch)
                 THEN ArchTokens(call.arch) ELSE ArchTokens("amd64")
  IN (AssetCalled /\ result.successfulMatch) =>
       /\ Contains(result.matchedAsset.Name, result.matchedOS)
       /\ Contains(result.matchedAsset.Name, result.matchedArch)
       /\ \E t \in OSTokens(call.OS) : EqualFold(result.matchedOS, t)
       /\ \E t \in archs : EqualFold(result.matchedArch, t)

\* C8: "universal" is reported as the matched architecture only when the
\* name of the asset holds none of "amd64", "x86_64", "64bit", "64-bit".
C8_UniversalLastResort ==
  (AssetCalled /\ result.successfulMatch
     /\ EqualFold(result.matchedArch, "universal")) =>
    \A t \in {"amd64", "x86_64", "64bit", "64-bit"} :
       ~Contains(ToLower(result.matchedAsset.Name), t)

\* C9: for linux/amd64 the first asset of the list that matches, when its
\* name holds "linux64" and no token of the architecture, is returned with
\* "linux64" as matched OS and as matched architecture; for every other
\* target an asset is returned only for the tokens of its name, never for
\* "linux64".
C9_Linux64Combination ==
  LET m == Matching(assets, call.OS, call.arch)
      fb == MatchingFallback(assets, call.OS, call.arch)
      linuxAmd64 == ToLower(call.OS) = "linux" /\ ToLower(call.arch) = "amd64"
  IN AssetCalled =>
       /\ ( /\ linuxAmd64
            /\ m # {}
            /\ Contains(ToLower(assets[Lowest(m)].Name), "linux64")
            /\ ~TokensMatch(assets[Lowest(m)].Name, call.OS, call.arch) ) =>
              result = AssetResult(assets[Lowest(m)], "linux64", "linux64",
                                   TRUE)
       /\ (~linuxAmd64 /\ result.successfulMatch) =>
            /\ \/ TokensMatch(result.matchedAsset.Name, call.OS, call.arch)
               \/ /\ IsDarwinArm64(call.OS, call.arch)
                  /\ TokensMatch(result.matchedAsset.Name, call.OS, "amd64")
            /\ result.matchedOS # "linux64"
            /\ result.matchedArch # "linux64"

\* C9, its case: Linux/AMD64 is asked for and an asset is matched by
\* "linux64" in its name.
C9_Witness ==
  /\ AssetCalled
  /\ call.OS = "Linux"
  /\ call.arch = "AMD64"
  /\ result.successfulMatch
  /\ Contains(ToLower(result.matchedAsset.Name), "linux64")
  /\ result.matchedOS = "linux64"
  /\ result.matchedArch = "linux64"

\* C10: for darwin/arm64 an asset of the list that matches darwin/arm64 is
\* returned wherever it is in the list; when there is none the result is
\* the one for darwin/amd64: its first matching asset with the tokens
\* matched, or no match; for any other target without a matching asset
\* the result is the empty asset and false.
C10_RosettaFallback ==
  LET m == Matching(assets, call.OS, call.arch)
      fb == MatchingFallback(assets, call.OS, call.arch)
  IN AssetCalled =>
       /\ (IsDarwinArm64(call.OS, call.arch) /\ m # {}) =>
            /\ result.matchedAsset = assets[Lowest(m)]
            /\ EqualFold(result.matchedArch, "arm64")
       /\ (IsDarwinArm64(call.OS, call.arch) /\ m = {}) =>
            /\ result = ScanAssets(assets, call.OS, "amd64", 1)
            /\ result.successfulMatch = (fb # {})
            /\ fb # {} => result.matchedAsset = assets[Lowest(fb)]
       /\ (~IsDarwinArm64(call.OS, call.arch) /\ m = {}) =>
            result = AssetResult(NoAsset, "", "", FALSE)

\* C10, its case: darwin/arm64 is asked for, no asset matches it, and a
\* darwin/amd64 asset is returned.
C10_Witness ==
  /\ AssetCalled
  /\ IsDarwinArm64(call.OS, call.arch)
  /\ Matching(assets, call.OS, call.arch) = {}
  /\ result.successfulMatch
  /\ TokensMatch(result.matchedAsset.Name, "darwin", "amd64")

(***************************************************************************)
(* github.go: the base name of a tool derived from the name of its asset.  *)
(***************************************************************************)

\* The bounds of the name derivation.
MaxComponents == 3

\* strings.Replace(s, old, "", -1): s without the occurrences of old, taken
\* from the left and not overlapping.
RECURSIVE RemoveAll(_, _)
RemoveAll(s, old) ==
  LET i == Index(s, old)
  IN IF i = -1 THEN s
     ELSE SubSeq(s, 1, i)
            \o RemoveAll(SubSeq(s, i + Len(old) + 1, Len(s)), old)

\* The loop of NameWithoutVersionAndComponents over the components: each
\* component is removed as "-component", then as "_component".
RECURSIVE StripComponents(_, _)
StripComponents(name, components) ==
  IF components = <<>> THEN name
  ELSE StripComponents(
         RemoveAll(RemoveAll(name, "-" \o Head(components)),
                   "_" \o Head(components)),
         Tail(components))

\* The tail [-_]?v?\d+.* of versionRE matches s from position p on.
VersionTailAt(s, p) ==
  LET a == IF ByteAt(s, p) \in {"-", "_"} THEN p + 1 ELSE p
      b == IF ByteAt(s, a) = "v" THEN a + 1 ELSE a
  IN IsDigit(ByteAt(s, b))

NoSubmatch == [matched |-> FALSE, group |-> ""]

\* versionRE.FindStringSubmatch(s) for versionRE = (.+?)[-_]?v?\d+.* : the
\* pattern is not anchored, but a match from a later start gives one from
\* the start of s, so the leftmost match starts at the first byte; its
\* group is the shortest non-empty prefix after which the tail matches.
versionRE(s) ==
  LET ks == {k \in 1..(Len(s) - 1) : VersionTailAt(s, k + 1)}
  IN IF ks = {} THEN NoSubmatch
     ELSE [matched |-> TRUE,
           group |-> SubSeq(s, 1, CHOOSE k \in ks : \A j \in ks : k <= j)]

\* strings.FieldsFunc(s, r == '-' || r == '_')[0], or s when there is no
\* field: the fallback of the earlier GithubAsset.GetBaseName.
FirstField(s) ==
  LET in == {i \in 1..Len(s) : CharAt(s, i) \notin {"-", "_"}}
      first == CHOOSE i \in in : \A j \in in : i <= j
      after == {i \in first..Len(s) : CharAt(s, i) \in {"-", "_"}}
      last == IF after = {} THEN Len(s)
              ELSE (CHOOSE i \in after : \A j \in after : i <= j) - 1
  IN IF in = {} THEN s ELSE SubSeq(s, first, last)

\* NameWithoutVersionAndComponents with the fallback of GetBaseName: a name
\* the pattern does not match is cut to its first field.
NameWithFirstFieldFallback(Name, components) ==
  LET strippedName == StripComponents(Name, components)
      withoutVersionMatches == versionRE(strippedName)
  IN IF withoutVersionMatches.matched THEN withoutVersionMatches.group
     ELSE FirstField(strippedName)

\* GithubAsset.NameWithoutVersionAndComponents
NameWithoutVersionAndComponents(Name, components) ==
  LET strippedName == StripComponents(Name, components)
      withoutVersionMatches == versionRE(strippedName)
  IN IF withoutVersionMatches.matched THEN withoutVersionMatches.group
     ELSE strippedName

\* The names of the assets whose base name is derived.
AssetNames ==
  { "app_v1.2.3_darwin_x64.tar.gz", "app-darwin-amd64", "my-tool",
    "my-tool_linux_amd64", "k3s-arm64", "app2go-1.0-linux-x64",
    "prme_0.0.6_Darwin_x86_64.tar.gz", "tool-v2-linux-amd64", "kubectl",
    "jq-linux-amd64-1.6" }

\* The components stripped: aliases of the OS and the architecture, a tag.
ComponentUniverse == {"darwin", "linux", "x64", "amd64", "arm64", "1.0"}

InitNames ==
  /\ releases = <<>>
  /\ assets \in {<<Asset(n, "assets/1")>> : n \in AssetNames}
  /\ files = <<>>
  /\ call = NoCall
  /\ result = NoCall

\* A call of GithubAsset.NameWithoutVersionAndComponents on the asset.
CallNameWithoutVersionAndComponents ==
  /\ call = NoCall
  /\ \E components \in SeqsUpTo(ComponentUniverse, MaxComponents) :
       /\ call' = [op |-> "NameWithoutVersionAndComponents",
                   components |-> components]
       /\ result' = NameWithoutVersionAndComponents(assets[1].Name,
                                                    components)
  /\ UNCHANGED <<releases, assets, files>>

NextNames == CallNameWithoutVersionAndComponents

\* The derivation of the base name of a tool.
SpecNames == InitNames /\ [][NextNames]_vars

(***************************************************************************)
(* The claims about the name derivation (SpecNames).                       *)
(***************************************************************************)

NameCalled == call.op = "NameWithoutVersionAndComponents"

\* The positions of s where a version-looking suffix begins: a dash or an
\* underscore, an optional "v", a digit.
SuffixStarts(s) ==
  {p \in 1..Len(s) :
     /\ CharAt(s, p) \in {"-", "_"}
     /\ \/ IsDigit(ByteAt(s, p + 1))
        \/ ByteAt(s, p + 1) = "v" /\ IsDigit(ByteAt(s, p + 2))}

\* The name the call strips the version of.
StrippedName == StripComponents(assets[1].Name, call.components)

\* C11: the result of NameWithoutVersionAndComponents is the part of the
\* stripped name before the first dash or underscore that is followed by
\* an optional "v" and a digit; a name without such a suffix is not cut
\* before a digit that belongs to the name of the tool.
C11_VersionSuffixTrimmed ==
  NameCalled =>
    LET s == StrippedName
        starts == SuffixStarts(s)
    IN IF starts # {}
         THEN result = SubSeq(s, 1, Lowest(starts) - 1)
         ELSE \A p \in 1..Len(s) :
                IsDigit(CharAt(s, p)) => result # SubSeq(s, 1, p - 1)

MaxVersions == 3

\* The string sortVersions gives NewVersion for the element v: "0.0.0"
\* for an empty one.  It is also what Version.Original() returns.
Parsed(v) == IF v = "" THEN "0.0.0" ELSE v

\* One pass of insertionSort of package sort with Less = Version.LessThan:
\* x moves left from the end of the sorted elements while it is less than
\* its neighbour.
RECURSIVE InsertVersion(_, _)
InsertVersion(sorted, x) ==
  IF sorted = <<>> THEN <<x>>
  ELSE IF VersionLess(x, sorted[Len(sorted)])
    THEN InsertVersion(SubSeq(sorted, 1, Len(sorted) - 1), x)
           \o <<sorted[Len(sorted)]>>
    ELSE sorted \o <<x>>

\* sort.Sort(hashicorpversion.Collection(c)): on fewer than 12 elements
\* sort.Sort is insertionSort.
RECURSIVE SortCollection(_)
SortCollection(c) ==
  IF c = <<>> THEN <<>>
  ELSE InsertVersion(SortCollection(SubSeq(c, 1, Len(c) - 1)), c[Len(c)])

\* sortVersions that never parses: sort.Strings on every list.
sortVersionsLexical(versions) == SortStrings(versions)

\* sortVersions that sorts the elements that parse as versions and puts
\* the others, sorted as strings, after them.
sortVersionsMixed(versions) ==
  LET good == {i \in DOMAIN versions : WellFormedVersion(Parsed(versions[i]))}
      pick(S) == [k \in 1..Cardinality(S) |->
                    versions[CHOOSE i \in S :
                               Cardinality({j \in S : j < i}) = k - 1]]
  IN SortCollection(pick(good)) \o SortStrings(pick(DOMAIN versions \ good))

\* sortVersions that sorts an empty string as 0.0.0 and returns it empty.
sortVersionsKeepEmpty(versions) ==
  LET sorted == SortCollection([i \in DOMAIN versions |->
                                  IF versions[i] = "" THEN "0.0.0-0"
                                  ELSE versions[i]])
  IN IF \E i \in DOMAIN versions : ~WellFormedVersion(Parsed(versions[i]))
       THEN SortStrings(versions)
       ELSE [i \in DOMAIN sorted |->
               IF sorted[i] = "0.0.0-0" THEN "" ELSE sorted[i]]

\* sortVersions: the list sorted as versions, each element that is empty
\* replaced by "0.0.0"; or sorted as strings, by sort.Strings, when an
\* element does not parse as a version.
sortVersions(versions) ==
  IF \E i \in DOMAIN versions : ~WellFormedVersion(Parsed(versions[i]))
    THEN SortStrings(versions)
    ELSE SortCollection([i \in DOMAIN versions |-> Parsed(versions[i])])

\* The version strings sorted: directory names of installed versions.
VersionUniverse ==
  {"9", "10", "1.9.0", "1.10.0", "v1.9.1", "1.10.0-rc1", "", "stable",
   "V1.9.0"}

InitSort ==
  /\ releases = <<>>
  /\ assets = <<>>
  /\ files = <<>>
  /\ call = NoCall
  /\ result = NoCall

\* A call of sortVersions.
CallSortVersions ==
  /\ call = NoCall
  /\ \E versions \in SeqsUpTo(VersionUniverse, MaxVersions) :
       /\ call' = [op |-> "sortVersions", versions |-> versions]
       /\ result' = sortVersions(versions)
  /\ UNCHANGED <<releases, assets, files>>

NextSort == CallSortVersions

\* The sorting of versions.
SpecSort == InitSort /\ [][NextSort]_vars

(***************************************************************************)
(* The claims about sortVersions (SpecSort).                               *)
(***************************************************************************)

SortCalled == call.op = "sortVersions"

\* Every element of the list parses as a version (an empty one as 0.0.0).
AllParse(versions) ==
  \A i \in DOMAIN versions : WellFormedVersion(Parsed(versions[i]))

\* The number of times x occurs in the sequence.
Count(seq, x) == Cardinality({i \in DOMAIN seq : seq[i] = x})

\* The two sequences hold the same strings the same number of times.
SameStrings(a, b) ==
  /\ Len(a) = Len(b)
  /\ \A i \in DOMAIN a : Count(a, a[i]) = Count(b, a[i])

\* No element of the sequence is a lower version than one before it.
AscendingVersions(seq) ==
  \A i, j \in DOMAIN seq : i < j => ~VersionLess(seq[j], seq[i])

\* No element of the sequence is a lower string than one before it.
AscendingStrings(seq) ==
  \A i, j \in DOMAIN seq : i < j => ~StringLess(seq[j], seq[i])

\* x comes before y wherever the sequence holds both.
Before(seq, x, y) ==
  \A i, j \in DOMAIN seq : seq[i] = x /\ seq[j] = y => i < j

\* C13: a non-empty list of well-formed versions comes back in ascending
\* numeric version order ("9" before "10", "1.9.0" before "1.10.0"), and a
\* list of one element comes back unchanged.
C13_NumericOrder ==
  (/\ SortCalled
   /\ call.versions # <<>>
   /\ \A i \in DOMAIN call.versions : WellFormedVersion(call.versions[i]))
    => /\ AscendingVersions(result)
       /\ SameStrings(result, call.versions)
       /\ Before(result, "9", "10")
       /\ Before(result, "1.9.0", "1.10.0")
       /\ Len(call.versions) = 1 => result = call.versions

\* A list that the byte-wise order sorts otherwise was sorted.
C13_Witness ==
  /\ SortCalled
  /\ call.versions = <<"1.10.0", "10", "9">>
  /\ result = <<"1.10.0", "9", "10">>

\* C14: a list with an element that does not parse as a version comes back
\* in byte-wise string order as a whole, wherever the element is.
C14_LexicographicFallback ==
  (SortCalled /\ ~AllParse(call.versions))
    => /\ SameStrings(result, call.versions)
       /\ AscendingStrings(result)

\* The element that does not parse is the last of the list, after two
\* versions that the numeric order sorts the other way.
C14_Witness ==
  /\ SortCalled
  /\ call.versions = <<"9", "10", "stable">>
  /\ result = <<"10", "9", "stable">>

\* C15 as stated: the result holds the strings of the list, the empty ones
\* included and first.
C15_Permutation ==
  SortCalled
    => /\ SameStrings(result, call.versions)
       /\ \A i, j \in DOMAIN result :
            result[i] = "" /\ result[j] # "" => i < j

\* C15, amended: the result has the length of the list; it holds the
\* strings of the list, except that, when every element parses, each empty
\* string has become "0.0.0"; empty strings that remain come first.
C15_PermutationOfParsed ==
  SortCalled
    => /\ Len(result) = Len(call.versions)
       /\ SameStrings(result,
                      IF AllParse(call.versions)
                        THEN [i \in DOMAIN call.versions |->
                                Parsed(call.versions[i])]
                        ELSE call.versions)
       /\ \A i, j \in DOMAIN result :
            result[i] = "" /\ result[j] # "" => i < j

\* A list of versions with an empty string was sorted.
C15_Witness ==
  /\ SortCalled
  /\ call.versions = <<"1.9.0", "", "10">>
  /\ result = <<"0.0.0", "1.9.0", "10">>

(***************************************************************************)
(* archives.go: ExtractFile.                                               *)
(*                                                                         *)
(* The content of a file is a record of what its bytes decode to:          *)
(*   [type |-> "empty"]                 no byte                            *)
(*   [type |-> "unknown", data |-> d]   bytes d of no known signature      *)
(*   [type |-> "xz", data |-> d]        a signature ExtractFile ignores    *)
(*   [type |-> "tar", entries, cut]     a tar of at least one entry        *)
(*   [type |-> "zip", entries, cut]     a zip                              *)
(*   [type |-> "gz", Name, inner, stream]   a gzip stream of inner         *)
(*   [type |-> "bz2", inner, stream]        a bzip2 stream of inner        *)
(*   [type |-> "partial", of |-> c]     what a failed copy of c left       *)
(* cut tells where a tar or zip is damaged, stream how far a compressed    *)
(* stream decodes.  The directory of the file is a function from paths,    *)
(* relative to it, to contents.                                            *)
(***************************************************************************)

\* The bound of the entries of a tar or a zip.
MaxEntries == 2

Empty == [type |-> "empty"]

Plain(d) == [type |-> "unknown", data |-> d]

Partial(c) == [type |-> "partial", of |-> c]

\* Where an archive is damaged: at the entry at, in its header, its body,
\* at its opening (zip), or in the central directory of a zip.
Cut(at, where) == [at |-> at, where |-> where]

NoCut == Cut(0, "none")

\* tar.TypeReg, tar.TypeDir, tar.TypeSymlink
TypeReg == "0"

TypeDir == "5"

TypeSymlink == "2"

TarEntry(flag, name, data) == [Typeflag |-> flag, Name |-> name, data |-> data]

ZipEntry(name, data) == [Name |-> name, data |-> data]

\* The outcome of a function that writes files and returns an error;
\* err = "" is nil.
Outcome(f, e) == [files |-> f, err |-> e]

\* strings.HasSuffix and strings.TrimSuffix
HasSuffix(s, suffix) ==
  /\ Len(suffix) <= Len(s)
  /\ SubSeq(s, Len(s) - Len(suffix) + 1, Len(s)) = suffix

TrimSuffix(s, suffix) ==
  IF HasSuffix(s, suffix) THEN SubSeq(s, 1, Len(s) - Len(suffix)) ELSE s

\* filepath.Base: the last element of the path, trailing slashes removed;
\* "." for an empty path.
RECURSIVE Base(_)
Base(path) ==
  IF path = "" THEN "."
  ELSE IF path = "/" THEN "/"
  ELSE IF HasSuffix(path, "/") THEN Base(SubSeq(path, 1, Len(path) - 1))
  ELSE LET slashes == {i \in 1..Len(path) : CharAt(path, i) = "/"}
       IN IF slashes = {} THEN path
          ELSE SubSeq(path,
                      (CHOOSE i \in slashes : \A j \in slashes : j <= i) + 1,
                      Len(path))

\* filepath.Join(destDirName, name) as a path relative to destDirName:
\* "." is destDirName itself.
Join(name) == IF name = "" THEN "." ELSE name

\* NewFileTypeReader whose io.EOF branch returns the error.
NewFileTypeReaderEOFError(content, readErr) ==
  IF readErr # "" THEN [fileType |-> "", err |-> readErr]
  ELSE IF content.type = "empty" THEN [fileType |-> "", err |-> "EOF"]
  ELSE [fileType |-> content.type, err |-> ""]

\* NewFileTypeReader on a reader of content whose first Read returns the
\* error readErr ("" is nil): (fileType, err).  The first Read of no byte
\* returns io.EOF, and the type is "unknown"; filetype.Match gives the
\* extension of the signature otherwise.
NewFileTypeReader(content, readErr) ==
  IF readErr # "" THEN [fileType |-> "", err |-> readErr]
  ELSE IF content.type = "empty" THEN [fileType |-> "unknown", err |-> ""]
  ELSE [fileType |-> content.type, err |-> ""]

\* saveAs(r, filePath): r reads content and fails with readErr ("" is
\* nil).  os.Create fails on a directory; the file a failed io.Copy leaves
\* is not removed.
saveAs(dir, filePath, content, readErr) ==
  IF filePath \in {".", "..", "/"}
    THEN Outcome(dir, "Cannot open " \o filePath \o ": is a directory")
  ELSE IF readErr # ""
    THEN Outcome((filePath :> Partial(content)) @@ dir,
                 "Cannot write to " \o filePath \o ": " \o readErr)
  ELSE Outcome((filePath :> content) @@ dir, "")

\* The loop of extractTarFile that skips an entry of a type it does not
\* know, as it skips a directory, and goes on.
RECURSIVE ExtractTarEntriesSkipUnknown(_, _, _)
ExtractTarEntriesSkipUnknown(t, i, dir) ==
  IF i > Len(t.entries) THEN Outcome(dir, "")
  ELSE IF t.cut = Cut(i, "header") THEN Outcome(dir, "unexpected EOF")
  ELSE LET header == t.entries[i]
       IN IF header.Typeflag = TypeReg
            THEN LET saved == saveAs(dir, Join(Base(header.Name)),
                                     header.data,
                                     IF t.cut = Cut(i, "body")
                                       THEN "unexpected EOF" ELSE "")
                 IN IF saved.err # "" THEN saved
                    ELSE ExtractTarEntriesSkipUnknown(t, i + 1, saved.files)
            ELSE ExtractTarEntriesSkipUnknown(t, i + 1, dir)

\* The loop of extractTarFile from the entry i on:
\* tarReader.Next() returns io.EOF after the last entry and an error at a
\* damaged header; a directory is skipped, a regular file saved under its
\* base name, any other type aborts.
RECURSIVE ExtractTarEntries(_, _, _)
ExtractTarEntries(t, i, dir) ==
  IF i > Len(t.entries) THEN Outcome(dir, "")
  ELSE IF t.cut = Cut(i, "header") THEN Outcome(dir, "unexpected EOF")
  ELSE LET header == t.entries[i]
       IN IF header.Typeflag = TypeDir
            THEN ExtractTarEntries(t, i + 1, dir)
          ELSE IF header.Typeflag = TypeReg
            THEN LET saved == saveAs(dir, Join(Base(header.Name)),
                                     header.data,
                                     IF t.cut = Cut(i, "body")
                                       THEN "unexpected EOF" ELSE "")
                 IN IF saved.err # "" THEN saved
                    ELSE ExtractTarEntries(t, i + 1, saved.files)
          ELSE Outcome(dir,
                 "aborting extraction, unknown file type '"
                   \o header.Typeflag \o "' for file \"" \o header.Name
                   \o "\" in tar file")

\* extractTarFile that removes, on an error, the files it wrote.
extractTarFileRollback(t, dir) ==
  LET done == ExtractTarEntries(t, 1, dir)
  IN IF done.err # "" THEN Outcome(dir, done.err) ELSE done

\* extractTarFile(r, destDirName), r reading the tar t.
extractTarFile(t, dir) == ExtractTarEntries(t, 1, dir)

\* The loop of extractZipFile over zipReader.File from the entry i on.
RECURSIVE ExtractZipEntries(_, _, _)
ExtractZipEntries(z, i, dir) ==
  IF i > Len(z.entries) THEN Outcome(dir, "")
  ELSE LET zrf == z.entries[i]
           saveFileName == Join(Base(zrf.Name))
       IN IF HasSuffix(zrf.Name, "/") THEN ExtractZipEntries(z, i + 1, dir)
          ELSE IF z.cut = Cut(i, "open")
            THEN Outcome(dir, "cannot open " \o zrf.Name
                                \o " in zip file: unsupported method")
          ELSE LET saved == saveAs(dir, saveFileName, zrf.data,
                                   IF z.cut = Cut(i, "body")
                                     THEN "unexpected EOF" ELSE "")
               IN IF saved.err # ""
                    THEN Outcome(saved.files,
                                 "Cannot write to " \o saveFileName \o ": "
                                   \o saved.err)
                    ELSE ExtractZipEntries(z, i + 1, saved.files)

\* extractZipFile(f, destDirName, size): zip.NewReader fails when the
\* central directory cannot be read.
extractZipFile(z, dir) ==
  IF z.cut = Cut(0, "directory")
    THEN Outcome(dir, "zip: not a valid zip file")
    ELSE ExtractZipEntries(z, 1, dir)

\* The error of the reads of a compressed stream: of the first Read, made
\* by NewFileTypeReader, and of the later ones, made by io.Copy.
FirstReadErr(stream) ==
  IF stream = "truncated early" THEN "unexpected EOF" ELSE ""

LaterReadErr(stream) ==
  IF stream = "truncated late" THEN "unexpected EOF" ELSE ""

\* What the first Read of the decompressed stream shows of the content
\* inner.  A stream whose first Read hands back fewer bytes than the tar
\* magic needs (a first gzip member or bzip2 stream that ends early, see
\* NewFileTypeReaderBytes) shows a buffer without a magic.
FirstRead(inner, stream) ==
  IF stream = "short first read"
    THEN [type |-> "unknown", data |-> "tar header"]
    ELSE inner

\* gunzipFile(r, destDirName), r reading the gzip g of the file filePath.
\* The name of the header is joined to the directory as it is.  When it is
\* the name of the file itself saveAs creates, and so truncates, the file
\* that r reads: the rest of the stream is read (selfRead = "buffered") or
\* lost.
gunzipFile(g, filePath, selfRead, dir) ==
  IF g.stream = "bad header" THEN Outcome(dir, "unexpected EOF")
  ELSE LET fileName == g.Name
           sniffed == NewFileTypeReader(FirstRead(g.inner, g.stream),
                                      FirstReadErr(g.stream))
       IN IF sniffed.err # "" THEN Outcome(dir, sniffed.err)
          ELSE IF sniffed.fileType = "tar"
            THEN LET done == extractTarFile(g.inner, dir)
                 IN IF done.err # ""
                      THEN Outcome(done.files,
                                   "while extracting ungzipped tar: "
                                     \o done.err)
                      ELSE done
          ELSE saveAs(dir, Join(fileName), g.inner,
                      IF LaterReadErr(g.stream) # ""
                        THEN LaterReadErr(g.stream)
                      ELSE IF Join(fileName) = filePath /\ selfRead = "lost"
                        THEN "unexpected EOF"
                        ELSE "")

\* bunzip2File(r, filePath), r reading the bzip2 b.  When filePath has no
\* .bz2 suffix saveAs creates, and so truncates, the file that r reads:
\* the rest of the stream is read (selfRead = "buffered") or lost.
bunzip2File(b, filePath, selfRead, dir) ==
  LET baseFileName == TrimSuffix(TrimSuffix(filePath, ".bz2"), ".BZ2")
      sniffed == NewFileTypeReader(FirstRead(b.inner, b.stream),
                                      FirstReadErr(b.stream))
  IN IF sniffed.err # "" THEN Outcome(dir, sniffed.err)
     ELSE IF sniffed.fileType = "tar"
       THEN LET done == extractTarFile(b.inner, dir)
            IN IF done.err # ""
                 THEN Outcome(done.files,
                              "while extracting bunzip2ed tar: " \o done.err)
                 ELSE done
     ELSE saveAs(dir, baseFileName, b.inner,
                 IF LaterReadErr(b.stream) # "" THEN LaterReadErr(b.stream)
                 ELSE IF baseFileName = filePath /\ selfRead = "lost"
                   THEN "unexpected EOF"
                   ELSE "")

\* The values ExtractFile returns, and the directory it leaves.
ExtractResult(w, e, d) == [wasExtracted |-> w, err |-> e, files |-> d]

\* ExtractFile that reports a tar it could extract a part of as extracted.
ExtractFileTarPartial(dir, filePath, selfRead) ==
  IF filePath \notin DOMAIN dir
    THEN ExtractResult(FALSE, "open " \o filePath
                                \o ": no such file or directory", dir)
  ELSE LET f == dir[filePath]
           sniffed == NewFileTypeReader(f, "")
           fileType == sniffed.fileType
           done == IF fileType = "gz"
                     THEN gunzipFile(f, filePath, selfRead, dir)
                   ELSE IF fileType = "bz2"
                     THEN bunzip2File(f, filePath, selfRead, dir)
                   ELSE IF fileType = "tar" THEN extractTarFile(f, dir)
                   ELSE IF fileType = "zip" THEN extractZipFile(f, dir)
                   ELSE Outcome(dir, "")
       IN IF sniffed.err # "" THEN ExtractResult(FALSE, sniffed.err, dir)
          ELSE IF fileType \notin {"gz", "bz2", "tar", "zip"}
            THEN ExtractResult(FALSE, "", dir)
          ELSE IF done.err # ""
            THEN ExtractResult(fileType = "tar" /\ done.files # dir,
                               done.err, done.files)
          ELSE ExtractResult(TRUE, "", done.files)

\* ExtractFile(filePath), in the directory dir of the file: os.Open, then
\* the switch on the type NewFileTypeReader found.
ExtractFile(dir, filePath, selfRead) ==
  IF filePath \notin DOMAIN dir
    THEN ExtractResult(FALSE, "open " \o filePath
                                \o ": no such file or directory", dir)
  ELSE LET f == dir[filePath]
           sniffed == NewFileTypeReader(f, "")
           fileType == sniffed.fileType
           done == IF fileType = "gz"
                     THEN gunzipFile(f, filePath, selfRead, dir)
                   ELSE IF fileType = "bz2"
                     THEN bunzip2File(f, filePath, selfRead, dir)
                   ELSE IF fileType = "tar" THEN extractTarFile(f, dir)
                   ELSE IF fileType = "zip" THEN extractZipFile(f, dir)
                   ELSE Outcome(dir, "")
       IN IF sniffed.err # "" THEN ExtractResult(FALSE, sniffed.err, dir)
          ELSE IF fileType \notin {"gz", "bz2", "tar", "zip"}
            THEN ExtractResult(FALSE, "", dir)
          ELSE IF done.err # "" THEN ExtractResult(FALSE, done.err, done.files)
          ELSE ExtractResult(TRUE, "", done.files)

\* The entries of the tars: regular files at the top and in directories,
\* a directory, a symbolic link.
TarEntryUniverse ==
  { TarEntry(TypeReg, "file", Plain("one")),
    TarEntry(TypeReg, "subdir/file2", Plain("two")),
    TarEntry(TypeDir, "subdir/", Empty),
    TarEntry(TypeSymlink, "link", Empty),
    TarEntry(TypeReg, "../up", Plain("three")),
    TarEntry(TypeReg, "subdir/file", Plain("four")) }

\* Where a tar of these entries can be truncated: in a header, or in the
\* body of a regular file.
TarCuts(entries) ==
  {NoCut}
    \cup {Cut(i, "header") : i \in DOMAIN entries}
    \cup {Cut(i, "body") :
            i \in {j \in DOMAIN entries : entries[j].Typeflag = TypeReg}}

\* The tars: filetype recognises a tar by its first header.
Tars ==
  UNION {{[type |-> "tar", entries |-> es, cut |-> c] : c \in TarCuts(es)} :
           es \in SeqsUpTo(TarEntryUniverse, MaxEntries) \ {<<>>}}

ZipEntryUniverse ==
  { ZipEntry("file", Plain("one")),
    ZipEntry("subdir/", Empty),
    ZipEntry("subdir/file2", Plain("two")) }

\* How a zip of these entries can be damaged: its central directory is
\* missing (a truncated zip), or a file of it cannot be opened or read.
ZipCuts(entries) ==
  {NoCut, Cut(0, "directory")}
    \cup {Cut(i, where) :
            i \in {j \in DOMAIN entries : ~HasSuffix(entries[j].Name, "/")},
            where \in {"open", "body"}}

Zips ==
  UNION {{[type |-> "zip", entries |-> es, cut |-> c] : c \in ZipCuts(es)} :
           es \in SeqsUpTo(ZipEntryUniverse, MaxEntries)}

\* How the compressed stream of the content inner can be damaged; the
\* truncation of a compressed tar past its first bytes is a cut of the tar.
\* A "short first read" stream is complete, and its first Read hands back
\* fewer bytes than the tar magic needs.
Streams(inner) ==
  IF inner.type = "tar" /\ inner.cut # NoCut THEN {"complete"}
  ELSE {"complete", "bad header", "truncated early"}
         \cup (IF inner.type = "unknown" THEN {"truncated late"} ELSE {})
         \cup (IF inner.type = "tar" THEN {"short first read"} ELSE {})

\* What a compressed stream holds.
Inner == {Empty, Plain("text")} \cup Tars

\* The names in the headers of the gzip streams; "" is no name, and
\* "download" is a name of the file that holds the stream.
GzipNames == {"", "file", "bin/tool", "../tool", "download"}

Gzips ==
  UNION {{[type |-> "gz", Name |-> n, inner |-> c, stream |-> st] :
            n \in GzipNames, st \in Streams(c)} : c \in Inner}

Bzip2s ==
  UNION {{[type |-> "bz2", inner |-> c, stream |-> st] :
            st \in Streams(c) \ {"bad header"}} : c \in Inner}

\* The contents of the file given to ExtractFile.
Contents ==
  {Empty, Plain("text"), [type |-> "xz", data |-> "text"]}
    \cup Tars \cup Zips \cup Gzips \cup Bzip2s

\* The names of the file given to ExtractFile.
SourceNames == {"asset.bz2", "download"}

InitExtract ==
  /\ releases = <<>>
  /\ assets = <<>>
  /\ files \in {(n :> c) : n \in SourceNames, c \in Contents}
  /\ call = NoCall
  /\ result = NoCall

\* A call of ExtractFile, on the file of the directory or on a path that
\* does not exist.
CallExtractFile ==
  /\ call = NoCall
  /\ \E filePath \in DOMAIN files \cup {"missing"},
        selfRead \in {"buffered", "lost"} :
       /\ selfRead = "lost" =>
            /\ filePath \in DOMAIN files
            /\ \/ /\ files[filePath].type = "bz2"
                  /\ ~HasSuffix(filePath, ".bz2")
               \/ /\ files[filePath].type = "gz"
                  /\ Join(files[filePath].Name) = filePath
            /\ \/ /\ files[filePath].inner.type # "tar"
                  /\ files[filePath].stream = "complete"
               \/ files[filePath].stream = "short first read"
       /\ call' = [op |-> "ExtractFile", filePath |-> filePath,
                   selfRead |-> selfRead, before |-> files]
       /\ LET done == ExtractFile(files, filePath, selfRead)
          IN /\ result' = [wasExtracted |-> done.wasExtracted,
                           err |-> done.err]
             /\ files' = done.files
  /\ UNCHANGED <<releases, assets>>

NextExtract == CallExtractFile

\* The extraction of an archive.
SpecExtract == InitExtract /\ [][NextExtract]_vars

(***************************************************************************)
(* The claims about ExtractFile (SpecExtract).                             *)
(***************************************************************************)

ExtractCalled == call.op = "ExtractFile"

\* The file ExtractFile was called on exists.
SourceExists == ExtractCalled /\ call.filePath \in DOMAIN call.before

\* Its content before the call.
Source == call.before[call.filePath]

\* The formats ExtractFile extracts.
Formats == {"gz", "bz2", "tar", "zip"}

\* C16: a file that is not recognised as gzip, bzip2, tar or zip, an
\* empty file included, is not extracted: ExtractFile returns false and no
\* error, and the directory holds what it held.
C16_UnknownNotExtracted ==
  (SourceExists /\ Source.type \notin Formats)
    => /\ ~result.wasExtracted
       /\ result.err = ""
       /\ files = call.before

\* ExtractFile was called on an empty file.
C16_Witness ==
  /\ SourceExists
  /\ Source = Empty
  /\ ~result.wasExtracted
  /\ result.err = ""
  /\ files = call.before

\* The index of the first entry of the tar that is neither a regular file
\* nor a directory; past the entries when there is none.
AbortAt(t) ==
  LET other == {i \in DOMAIN t.entries :
                  t.entries[i].Typeflag \notin {TypeReg, TypeDir}}
  IN IF other = {} THEN Len(t.entries) + 1 ELSE Lowest(other)

\* The index of the entry at which the extraction of the tar stops.
StopAt(t) ==
  IF t.cut # NoCut /\ t.cut.at < AbortAt(t) THEN t.cut.at ELSE AbortAt(t)

\* The regular files among the entries before the entry n.
RegularBefore(t, n) ==
  {i \in 1..(n - 1) : t.entries[i].Typeflag = TypeReg}

\* The files of the entries before the entry n are in the directory, each
\* under its base name, with the data of the last entry of that name.
WrittenBefore(t, n, dir) ==
  \A i \in RegularBefore(t, n) :
    LET name == Base(t.entries[i].Name)
        same == {j \in RegularBefore(t, n) : Base(t.entries[j].Name) = name}
        last == CHOOSE j \in same : \A k \in same : k <= j
    IN /\ name \in DOMAIN dir
       /\ \/ dir[name] = t.entries[last].data
          \/ /\ t.cut = Cut(n, "body")
             /\ Base(t.entries[n].Name) = name
             /\ dir[name] = Partial(t.entries[n].data)

\* The file is a tar that is truncated before an entry that aborts.
TruncatedTar ==
  /\ SourceExists
  /\ Source.type = "tar"
  /\ Source.cut # NoCut
  /\ Source.cut.at < AbortAt(Source)

\* C17 as stated: a truncated tar gives an error and wasExtracted = true,
\* and the files extracted before the truncation stay.
C17_TruncatedTarExtracted ==
  TruncatedTar
    => /\ result.err # ""
       /\ result.wasExtracted
       /\ WrittenBefore(Source, StopAt(Source), files)

\* C17, amended: a truncated tar gives an error and wasExtracted = false;
\* the files extracted before the truncation stay, and so does the part of
\* the file that was being written.
C17_TruncatedTarNotRolledBack ==
  TruncatedTar
    => /\ result.err # ""
       /\ ~result.wasExtracted
       /\ WrittenBefore(Source, StopAt(Source), files)
       /\ files[call.filePath] = Source
       /\ Source.cut.where = "body" =>
            /\ Base(Source.entries[Source.cut.at].Name) \in DOMAIN files
            /\ files[Base(Source.entries[Source.cut.at].Name)]
                 = Partial(Source.entries[Source.cut.at].data)

\* A tar truncated in its second entry was extracted in part.
C17_Witness ==
  /\ TruncatedTar
  /\ Source.cut = Cut(2, "body")
  /\ Source.entries[1].Typeflag = TypeReg
  /\ Base(Source.entries[1].Name) # Base(Source.entries[2].Name)
  /\ result.err # ""
  /\ files[Base(Source.entries[1].Name)] = Source.entries[1].data

\* The content decodes to its end.
RECURSIVE Intact(_)
Intact(c) ==
  IF c.type \in {"tar", "zip"} THEN c.cut = NoCut
  ELSE IF c.type \in {"gz", "bz2"}
    THEN c.stream \in {"complete", "short first read"} /\ Intact(c.inner)
  ELSE TRUE

\* C18: ExtractFile never returns an error together with
\* wasExtracted = true; it returns true only for a file of one of the four
\* formats that was read to its end.
C18_ErrorMeansNotExtracted ==
  ExtractCalled
    => /\ result.err # "" => ~result.wasExtracted
       /\ result.wasExtracted =>
            /\ result.err = ""
            /\ SourceExists
            /\ Source.type \in Formats
            /\ Intact(Source)

\* An extraction failed after it had written a file.
C18_Witness ==
  /\ SourceExists
  /\ Source.type \in Formats
  /\ result.err # ""
  /\ ~result.wasExtracted
  /\ files # call.before

\* The tar ExtractFile reads: the file, or what its gzip or bzip2 stream
\* holds.
SourceTar == IF Source.type = "tar" THEN Source ELSE Source.inner

\* The file is a tar, compressed or not, is not damaged, and is given to
\* extractTarFile.
IntactTar ==
  /\ SourceExists
  /\ Source.type \in {"tar", "gz", "bz2"}
  /\ Intact(Source)
  /\ SourceTar.type = "tar"
  /\ Source.type # "tar" => Source.stream = "complete"

\* C19: the entries of a tar are extracted in their order: the regular
\* files into the directory under their base names, no directory is
\* created, and the first entry of another type ends the extraction with
\* an error that names it; the files of the entries before it stay and no
\* entry after it is written.
C19_TarEntriesInOrder ==
  IntactTar
    => LET t == SourceTar
           n == AbortAt(t)
       IN /\ WrittenBefore(t, n, files)
          /\ DOMAIN files
               = DOMAIN call.before
                   \cup {Base(t.entries[i].Name) : i \in RegularBefore(t, n)}
          /\ \A path \in DOMAIN files : ~Contains(path, "/")
          /\ files[call.filePath] = Source
          /\ IF n <= Len(t.entries)
               THEN /\ Contains(result.err, "\"" \o t.entries[n].Name \o "\"")
                    /\ ~result.wasExtracted
               ELSE result.err = "" /\ result.wasExtracted

\* A tar with a file in a directory and then a symbolic link was
\* extracted.
C19_Witness ==
  /\ IntactTar
  /\ Len(SourceTar.entries) = 2
  /\ SourceTar.entries[1].Name = "subdir/file2"
  /\ SourceTar.entries[2].Typeflag = TypeSymlink
  /\ result.err # ""
  /\ "file2" \in DOMAIN files

\* C20: a well-formed gzip of something that is not a tar yields one new
\* file and wasExtracted = true; the file has the name of the gzip header
\* when there is one, and a derived name otherwise.
C20_GzipSingleFile ==
  (/\ SourceExists
   /\ Source.type = "gz"
   /\ Source.stream = "complete"
   /\ Source.inner.type # "tar")
    => /\ result.wasExtracted
       /\ result.err = ""
       /\ Cardinality(DOMAIN files \ DOMAIN call.before) = 1
       /\ Source.Name # "" =>
            /\ Source.Name \in DOMAIN files
            /\ files[Source.Name] = Source.inner

\* The paths of the directory that the call created or wrote.
Written ==
  {p \in DOMAIN files : p \notin DOMAIN call.before \/ files[p] # call.before[p]}

\* C27: every file that ExtractFile creates or writes is in the directory
\* of the source file itself: its path, relative to that directory, names
\* no other directory.
C27_WritesOnlyInSourceDirectory ==
  ExtractCalled
    => \A p \in Written : ~Contains(p, "/") /\ p \notin {".", ".."}

\* C28: ExtractFile leaves the source file as it was.
C28_SourceKept ==
  SourceExists
    => /\ call.filePath \in DOMAIN files
       /\ files[call.filePath] = Source

\* C30: a tag that MatchTagFromPartialVersion returns with found = true
\* is the TagName of a release of the list that is not a pre-release.
C30_FoundTagIsReleased ==
  (MatchCalled /\ result.found) => result.tag \in ReleasedTags(releases)

(***************************************************************************)
(* The sniffing reader, byte by byte.  A stream is the sequence of the     *)
(* bytes its reader delivers; the first Read of NewFileTypeReader hands    *)
(* back n of them, with nil, io.EOF or another error.                      *)
(***************************************************************************)

\* The longest stream of the model.
MaxStreamLen == 514

\* make([]byte, 512)
BufferSize == 512

\* The offset of the magic "ustar" of a tar header (0-based), and the
\* length a buffer must exceed for the tar matcher of filetype.
TarMagicOffset == 257

\* The magic numbers of the matchers of filetype that ExtractFile uses,
\* as the bytes at their 1-based positions.
Signature(kind) ==
  CASE kind = "gz" -> (1 :> 31) @@ (2 :> 139) @@ (3 :> 8)
    [] kind = "bz2" -> (1 :> 66) @@ (2 :> 90) @@ (3 :> 104)
    [] kind = "zip" -> (1 :> 80) @@ (2 :> 75) @@ (3 :> 3) @@ (4 :> 4)
    [] kind = "tar" ->
         (TarMagicOffset + 1 :> 117) @@ (TarMagicOffset + 2 :> 115)
           @@ (TarMagicOffset + 3 :> 116) @@ (TarMagicOffset + 4 :> 97)
           @@ (TarMagicOffset + 5 :> 114)
    [] OTHER -> <<>>

\* filetype.Match(buffer): the extension of the matcher whose magic the
\* buffer holds, "unknown" when there is none.  No buffer of the model
\* holds two magics.
Match(buffer) ==
  LET holds(kind) ==
        /\ \A i \in DOMAIN Signature(kind) :
             i <= Len(buffer) /\ buffer[i] = Signature(kind)[i]
        /\ kind = "tar" => Len(buffer) > TarMagicOffset + 4
      kinds == {k \in {"gz", "bz2", "zip", "tar"} : holds(k)}
  IN IF kinds = {} THEN "unknown" ELSE CHOOSE k \in kinds : TRUE

\* io.MultiReader(bytes.NewBuffer(head), f), f having rest left to read.
MultiReader(head, rest) == [head |-> head, rest |-> rest]

\* No reader.
NilReader == [head |-> <<>>, rest |-> <<>>, nil |-> TRUE]

\* The bytes that reading r to its end delivers.
ReadAll(r) == r.head \o r.rest

\* NewFileTypeReader whose reader replays the whole buffer.
NewFileTypeReaderWholeBuffer(f, n, readErr) ==
  LET buffer == [i \in 1..BufferSize |-> IF i <= n THEN f[i] ELSE 0]
      resetReader == MultiReader(buffer, SubSeq(f, n + 1, Len(f)))
  IN IF readErr = "EOF"
       THEN [ftr |-> resetReader, fileType |-> "unknown", err |-> ""]
     ELSE IF readErr # ""
       THEN [ftr |-> NilReader, fileType |-> "", err |-> readErr]
     ELSE [ftr |-> resetReader, fileType |-> Match(buffer), err |-> ""]

\* NewFileTypeReader(f) on a reader of the bytes f whose first Read hands
\* back n bytes and the error readErr ("" is nil): the buffer keeps its
\* zeros past the n bytes and filetype.Match is given all of it.
NewFileTypeReaderBytes(f, n, readErr) ==
  LET buffer == [i \in 1..BufferSize |-> IF i <= n THEN f[i] ELSE 0]
      resetReader == MultiReader(SubSeq(buffer, 1, n),
                                 SubSeq(f, n + 1, Len(f)))
  IN IF readErr = "EOF"
       THEN [ftr |-> resetReader, fileType |-> "unknown", err |-> ""]
     ELSE IF readErr # ""
       THEN [ftr |-> NilReader, fileType |-> "", err |-> readErr]
     ELSE [ftr |-> resetReader, fileType |-> Match(buffer), err |-> ""]

\* The byte at position i of a stream with the magic of kind: the magic,
\* and bytes that are in no magic elsewhere.
StreamByte(kind, i) ==
  IF i \in DOMAIN Signature(kind) THEN Signature(kind)[i] ELSE 1 + (i % 5)

\* The stream of len bytes with the magic of kind.
Stream(kind, len) == [i \in 1..len |-> StreamByte(kind, i)]

\* The lengths of the streams: none, fewer than the buffer, the buffer,
\* and more.
StreamLengths ==
  {0, 1, 4, TarMagicOffset + 5, BufferSize - 1, BufferSize, BufferSize + 1,
   MaxStreamLen}

StreamUniverse ==
  {Stream(kind, len) :
     kind \in {"gz", "bz2", "zip", "tar", "plain"}, len \in StreamLengths}

\* The numbers of bytes a first Read into the buffer hands back.
FirstReadSizes ==
  {0, 1, 3, 4, TarMagicOffset, TarMagicOffset + 5, BufferSize - 1, BufferSize}

Min(a, b) == IF a < b THEN a ELSE b

InitSniff ==
  /\ releases = <<>>
  /\ assets = <<>>
  /\ files \in StreamUniverse
  /\ call = NoCall
  /\ result = NoCall

\* A call of NewFileTypeReader on a reader of the stream, and the reading
\* of the reader it returns to its end.  A Read hands back at most the
\* bytes that are left, and io.EOF only with the last of them.
CallNewFileTypeReader ==
  /\ call = NoCall
  /\ \E n \in FirstReadSizes, readErr \in {"", "EOF", "read error"} :
       /\ n <= Min(BufferSize, Len(files))
       /\ readErr = "EOF" => n = Len(files)
       /\ (readErr = "" /\ n = 0) => Len(files) = 0
       /\ call' = [op |-> "NewFileTypeReader", n |-> n, readErr |-> readErr]
       /\ LET got == NewFileTypeReaderBytes(files, n, readErr)
          IN result' = [fileType |-> got.fileType, err |-> got.err,
                        nil |-> "nil" \in DOMAIN got.ftr,
                        read |-> ReadAll(got.ftr)]
  /\ UNCHANGED <<releases, assets, files>>

NextSniff == CallNewFileTypeReader

\* The sniffing of a stream.
SpecSniff == InitSniff /\ [][NextSniff]_vars

SniffCalled == call.op = "NewFileTypeReader"

\* C21: the bytes read from the reader that NewFileTypeReader returns are
\* the bytes of the stream from its first one, none lost, repeated or out
\* of order, whatever the length of the stream and of the first Read.
C21_SniffingTransparent ==
  (SniffCalled /\ ~result.nil) => result.read = files

\* A stream longer than the buffer was sniffed with a short first Read
\* and read to its end.
C21_Witness ==
  /\ SniffCalled
  /\ ~result.nil
  /\ Len(files) > BufferSize
  /\ call.n = TarMagicOffset
  /\ Len(result.read) = Len(files)

\* C29: the type NewFileTypeReader reports is the one it reports when the
\* first Read fills the buffer as far as the stream goes: it does not
\* depend on the number of bytes of the first Read.
C29_TypeIndependentOfFirstRead ==
  (SniffCalled /\ result.err = "")
    => result.fileType
         = NewFileTypeReaderBytes(files, Min(BufferSize, Len(files)),
                                  "").fileType

(***************************************************************************)
(* The lookup of a Hashicorp release, call by call.  The catalog is the    *)
(* state: what the releases API answers for the product, for its latest    *)
(* release, for an explicit version and for the listing of releases.  A    *)
(* call is a frame on the stack of the caller.                             *)
(***************************************************************************)

\* The deepest stack of calls of the model.
MaxDepth == 4

\* The answers of GET /v1/releases/<product>/<version>.
Statuses == {"200", "200 incomplete", "404", "500", "network error"}

\* The catalogs: Exists(), the latest release, an explicit version, and
\* what fetchReleases with forPartialVersion comes to.
Catalogs ==
  [exists : {"ok", "missing", "error"},
   latest : Statuses,
   exact : Statuses,
   partial : {"fetch error", "no releases", "matched", "no match"}]

\* hashicorpBuild
Build(OS, arch) == [OS |-> OS, Arch |-> arch]

BuildUniverse ==
  {Build("darwin", "amd64"), Build("Darwin", "ARM64"),
   Build("linux", "x86_64")}

\* The versions asked of releaseForVersion.
ReleaseVersions == {"", "latest", "LATEST", "1.2", "1.2.3"}

Frame(fn, args) == [fn |-> fn, args |-> args]

\* The frame whose code runs.
Top == call.stack[Len(call.stack)]

Running(fn) ==
  /\ call.op \in {"releaseForVersion", "MatchBuildByOsAndArch"}
  /\ result = NoCall
  /\ Top.fn = fn

\* A call made by the running function: a frame more.
Push(fn, args) ==
  /\ Len(call.stack) < MaxDepth
  /\ call' = [call EXCEPT !.stack = Append(@, Frame(fn, args))]
  /\ UNCHANGED result

\* The running function returns, and its callers return its values.
Return(value) ==
  /\ result' = value
  /\ UNCHANGED call

ReleaseResult(found, err) == [found |-> found, err |-> err]

InitReleases ==
  /\ releases \in Catalogs
  /\ assets \in SeqsUpTo(BuildUniverse, MaxAssets - 1)
  /\ files = <<>>
  /\ call = NoCall
  /\ result = NoCall

\* DownloadReleaseForVersion calls releaseForVersion(version).
CallReleaseForVersion ==
  /\ call = NoCall
  /\ \E version \in ReleaseVersions :
       call' = [op |-> "releaseForVersion",
                stack |-> <<Frame("releaseForVersion", <<version>>)>>]
  /\ UNCHANGED <<releases, assets, files, result>>

\* The body of releaseForVersion: on HTTP 404 it returns what
\* releaseForPartialVersion(version) returns, version being "latest" for
\* "" and for any case of "latest".
releaseForVersion ==
  /\ Running("releaseForVersion")
  /\ LET version == IF IsLatest(Top.args[1]) THEN "latest" ELSE Top.args[1]
         status == IF version = "latest" THEN releases.latest
                   ELSE releases.exact
     IN IF releases.exists = "error"
          THEN Return(ReleaseResult(FALSE, "network error"))
        ELSE IF releases.exists = "missing"
          THEN Return(ReleaseResult(FALSE, "no such Hashicorp product"))
        ELSE IF status = "network error"
          THEN Return(ReleaseResult(FALSE, "network error"))
        ELSE IF status = "404"
          THEN Push("releaseForPartialVersion", <<version>>)
        ELSE IF status # "200"
          THEN Return(ReleaseResult(FALSE,
                 IF status = "500" THEN "HTTP 500"
                 ELSE "the Hashicorp API did not return the expected fields"))
        ELSE Return(ReleaseResult(TRUE, ""))
  /\ UNCHANGED <<releases, assets, files>>

\* The body of releaseForPartialVersion: for "" and "latest" it returns
\* what releaseForVersion("latest") returns.
releaseForPartialVersion ==
  /\ Running("releaseForPartialVersion")
  /\ IF IsLatest(Top.args[1])
       THEN Push("releaseForVersion", <<"latest">>)
     ELSE IF releases.partial = "fetch error"
       THEN Return(ReleaseResult(FALSE, "network error"))
     ELSE IF releases.partial = "no releases"
       THEN Return(ReleaseResult(FALSE, "there are no releases"))
     ELSE Return(ReleaseResult(releases.partial = "matched", ""))
  /\ UNCHANGED <<releases, assets, files>>

\* stringEqualFoldOneOf
stringEqualFoldOneOf(s, firstMatchstr, additionalMatchstrs) ==
  \E i \in 1..(Len(additionalMatchstrs) + 1) :
    EqualFold(s, (<<firstMatchstr>> \o additionalMatchstrs)[i])

\* DownloadReleaseForVersion calls MatchBuildByOsAndArch(builds, OS, arch).
CallMatchBuildByOsAndArch ==
  /\ call = NoCall
  /\ \E target \in Targets :
       call' = [op |-> "MatchBuildByOsAndArch",
                stack |-> <<Frame("MatchBuildByOsAndArch", target)>>]
  /\ UNCHANGED <<releases, assets, files, result>>

\* The body of MatchBuildByOsAndArch: the first build of the OS and the
\* architecture or one of their aliases; without one, for darwin/arm64,
\* what MatchBuildByOsAndArch(builds, OS, "amd64") returns.
MatchBuildByOsAndArch ==
  /\ Running("MatchBuildByOsAndArch")
  /\ LET LCOS == ToLower(Top.args[1])
         LCArch == ToLower(Top.args[2])
         matches ==
           {i \in 1..Len(assets) :
              /\ stringEqualFoldOneOf(ToLower(assets[i].OS), LCOS,
                                      getAliasesForOperatingSystem(LCOS))
              /\ stringEqualFoldOneOf(ToLower(assets[i].Arch), LCArch,
                                      getAliasesForArchitecture(LCArch))}
     IN IF matches # {}
          THEN Return([build |-> assets[CHOOSE i \in matches :
                                          \A j \in matches : i <= j],
                       found |-> TRUE])
        ELSE IF LCOS = "darwin" /\ LCArch = "arm64"
          THEN Push("MatchBuildByOsAndArch", <<Top.args[1], "amd64">>)
        ELSE Return([build |-> Build("", ""), found |-> FALSE])
  /\ UNCHANGED <<releases, assets, files>>

NextReleases ==
  \/ CallReleaseForVersion
  \/ releaseForVersion
  \/ releaseForPartialVersion
  \/ CallMatchBuildByOsAndArch
  \/ MatchBuildByOsAndArch

\* The lookup of a Hashicorp release and of its build.
SpecReleases == InitReleases /\ [][NextReleases]_vars

\* C22: the depth of the calls of a fallback is at most two: the retry of
\* MatchBuildByOsAndArch with amd64 and the delegation between
\* releaseForVersion and releaseForPartialVersion for "latest" end after
\* one call more, whatever the catalog answers.
C22_FallbackDepthAtMostTwo ==
  call.op \in {"releaseForVersion", "MatchBuildByOsAndArch"}
    => Len(call.stack) <= 2

(***************************************************************************)
(* The search of the ASDF configuration.  The file system is the state:    *)
(* the directories that hold a .tool-versions file, with its lines.  The   *)
(* loop of listPathsByParent runs one iteration a step.                    *)
(***************************************************************************)

\* strings.Fields: the fields of the line between its runs of spaces.
Fields(line) == SelectSeq(Split(line, " "), LAMBDA field : field # "")

\* getToolVersionFromASDFConfigFile that takes the version of a line with
\* more than two fields.
getToolVersionAnyFieldCount(content, toolName) ==
  LET listed == {i \in 1..Len(content) :
                   LET fields == Fields(content[i])
                   IN /\ Len(fields) >= 2
                      /\ CharAt(fields[1], 1) # "#"
                      /\ fields[1] = toolName}
  IN IF listed = {} THEN [toolVersion |-> "", foundTool |-> FALSE]
     ELSE [toolVersion |->
             Fields(content[CHOOSE i \in listed :
                              \A j \in listed : i <= j])[2],
           foundTool |-> TRUE]

\* getToolVersionFromASDFConfigFile on a file of the lines content: the
\* second field of the first line of two fields, not a comment, whose
\* first field is toolName.
getToolVersionFromASDFConfigFile(content, toolName) ==
  LET listed == {i \in 1..Len(content) :
                   LET fields == Fields(content[i])
                   IN /\ Len(fields) = 2
                      /\ CharAt(fields[1], 1) # "#"
                      /\ fields[1] = toolName}
  IN IF listed = {} THEN [toolVersion |-> "", foundTool |-> FALSE]
     ELSE [toolVersion |->
             Fields(content[CHOOSE i \in listed :
                              \A j \in listed : i <= j])[2],
           foundTool |-> TRUE]

\* The loop of FindASDFToolVersion over the locations from index i on.
RECURSIVE ScanLocations(_, _, _, _)
ScanLocations(dir, locations, i, toolName) ==
  IF i > Len(locations)
    THEN [toolVersion |-> "", foundTool |-> FALSE, err |-> ""]
    ELSE LET got == getToolVersionFromASDFConfigFile(dir[locations[i]],
                                                     toolName)
         IN IF got.foundTool
              THEN [toolVersion |-> got.toolVersion, foundTool |-> TRUE,
                    err |-> ""]
              ELSE ScanLocations(dir, locations, i + 1, toolName)

\* filepath.Clean(filepath.Join(checkDir, "..")) of a clean absolute path:
\* the path without its last element, "/" for "/".
ParentDir(checkDir) ==
  LET slashes == {i \in 1..Len(checkDir) : CharAt(checkDir, i) = "/"}
      last == CHOOSE i \in slashes : \A j \in slashes : j <= i
  IN IF last = 1 THEN "/" ELSE SubSeq(checkDir, 1, last - 1)

\* The directories that can hold a .tool-versions file, and the others.
ConfigDirs == {"/w", "/w/p", "/w/p/s"}

OtherDirs == {"/", "/o"}

\* os.Getwd()
Getwd == "/w/p"

\* The .tool-versions files, as lines.
ConfigUniverse ==
  { <<"app 1.2.3">>,
    <<"other 2.0", "app 1.1.1">>,
    <<"other 2.0">>,
    <<"# app 9.9", "app", "app 1.0 extra", "">>,
    <<"app", "  app   3.0  ", "app 4.0">> }

ToolNames == {"app", "other"}

InitASDF ==
  /\ releases = <<>>
  /\ assets = <<>>
  /\ \E held \in SUBSET ConfigDirs : files \in [held -> ConfigUniverse]
  /\ call = NoCall
  /\ result = NoCall

\* FindASDFToolVersion(toolName, options) up to the first iteration of
\* listPathsByParent; "" is an option that is not given.
CallFindASDFToolVersion ==
  /\ call = NoCall
  /\ \E toolName \in ToolNames,
        startDir \in {""} \cup ConfigDirs \cup OtherDirs,
        rootDir \in {""} \cup ConfigDirs \cup OtherDirs :
       call' = [op |-> "FindASDFToolVersion", toolName |-> toolName,
                startDirName |-> IF startDir = "" THEN Getwd ELSE startDir,
                rootDirName |-> IF rootDir = "" THEN "/" ELSE rootDir,
                checkDir |-> IF startDir = "" THEN Getwd ELSE startDir,
                paths |-> <<>>]
  /\ UNCHANGED <<releases, assets, files, result>>

\* An iteration of the loop of listPathsByParent; the one that reaches
\* rootDirName ends the loop, and FindASDFToolVersion returns the version
\* of the first location that lists the tool.
listPathsByParent ==
  /\ call.op = "FindASDFToolVersion"
  /\ result = NoCall
  /\ LET paths == IF call.checkDir \in DOMAIN files
                    THEN Append(call.paths, call.checkDir)
                    ELSE call.paths
     IN IF call.checkDir = call.rootDirName
          THEN /\ call' = [call EXCEPT !.paths = paths]
               /\ result' = ScanLocations(files, paths, 1, call.toolName)
          ELSE /\ call' = [call EXCEPT !.paths = paths,
                                       !.checkDir = ParentDir(call.checkDir)]
               /\ UNCHANGED result
  /\ UNCHANGED <<releases, assets, files>>

NextASDF == CallFindASDFToolVersion \/ listPathsByParent

\* The search of the version of a tool.
SpecASDF == InitASDF /\ [][NextASDF]_vars

\* The search with a loop that goes on while it can.
SpecASDFFair == SpecASDF /\ WF_vars(listPathsByParent)

ASDFCalled == call.op = "FindASDFToolVersion"

ASDFReturned == ASDFCalled /\ result # NoCall

\* The line is a well-formed line of the tool: two fields, the tool first.
ListsTool(line, toolName) ==
  Len(Fields(line)) = 2 /\ Fields(line)[1] = toolName

\* The directory is the start directory or above it.
IsAbove(d, startDirName) ==
  \/ d = startDirName
  \/ d = "/"
  \/ HasPrefix(startDirName, d \o "/")

\* The directories from the start directory up to the root directory whose
\* file lists the tool.
Listing ==
  {d \in DOMAIN files :
     /\ IsAbove(d, call.startDirName)
     /\ IsAbove(call.rootDirName, d)
     /\ \E i \in 1..Len(files[d]) : ListsTool(files[d][i], call.toolName)}

\* C23: FindASDFToolVersion returns the version of the .tool-versions file
\* nearest the start directory, up to the root directory, that holds a
\* well-formed line of the tool, the version of the first such line; the
\* files that do not list the tool are passed over, and without a file
\* that lists it the result is ("", false) and no error.
C23_NearestListingFile ==
  ASDFReturned
    => /\ result.err = ""
       /\ result.foundTool = (Listing # {})
       /\ Listing = {} => result.toolVersion = ""
       /\ Listing # {} =>
            LET nearest == CHOOSE d \in Listing :
                             \A e \in Listing : Len(e) <= Len(d)
                first == CHOOSE i \in 1..Len(files[nearest]) :
                           /\ ListsTool(files[nearest][i], call.toolName)
                           /\ \A j \in 1..(i - 1) :
                                ~ListsTool(files[nearest][j], call.toolName)
            IN result.toolVersion = Fields(files[nearest][first])[2]

\* The version came from a directory above the start directory, the files
\* nearer to it holding only lines that are not well-formed lines of the
\* tool.
C23_Witness ==
  /\ ASDFReturned
  /\ call.startDirName = "/w/p/s"
  /\ call.rootDirName = "/w"
  /\ DOMAIN files = ConfigDirs
  /\ files["/w/p/s"] = <<"other 2.0">>
  /\ files["/w/p"] = <<"# app 9.9", "app", "app 1.0 extra", "">>
  /\ call.toolName = "app"
  /\ result.foundTool
  /\ result.toolVersion = "3.0"

\* C26: the loop of listPathsByParent ends, whatever the start and the
\* root directory are.
C26_ListingTerminates == ASDFCalled ~> ASDFReturned

(***************************************************************************)
(* The managed tools.  The state is what the installs and the shims        *)
(* directory hold: for a tool and a version its directory, without the     *)
(* binary, with a binary that was not written to its end, or with the      *)
(* binary; and for a tool what is found at the path of its shim.           *)
(***************************************************************************)

ManagedTools == {"app", "kubectl"}

ManagedVersions == {"1.0", "v1.0"}

\* The steps of Install that can fail on their own, "" for none: the
\* parsing of the specification, the download, the extraction, and in
\* CopyExecutableToCreatedDir os.Stat of the source, os.MkdirAll,
\* os.Create and io.Copy.
InstallFailures ==
  {"", "spec", "download", "extract", "stat", "mkdir", "create", "copy"}

Managed(installs, shims) == [installs |-> installs, shims |-> shims]

\* CopyExecutableToCreatedDir(finalBinary, installDest) for the version of
\* the tool: the directory is made before the file is created, and the
\* file is created before it is written.
CopyExecutableToCreatedDir(installs, tool, version, failure) ==
  LET held == installs[<<tool, version>>]
  IN IF failure \in {"stat", "mkdir"}
       THEN [installs |-> installs, err |-> failure]
     ELSE IF failure = "create"
       THEN [installs |->
               [installs EXCEPT ![<<tool, version>>] =
                  IF held = "none" THEN "directory" ELSE held],
             err |-> failure]
     ELSE IF failure = "copy"
       THEN [installs |-> [installs EXCEPT ![<<tool, version>>] = "partial"],
             err |-> "Cannot write to " \o tool]
     ELSE [installs |-> [installs EXCEPT ![<<tool, version>>] = "binary"],
           err |-> ""]

\* createShim(binaryName).  At the path of a shim there is nothing
\* ("none"), the symbolic link to jkl ("jkl"), a file that is no symbolic
\* link ("file") or a symbolic link to another file ("other"): a link is
\* made where there is nothing, the link to jkl is kept, and anything
\* else is an error.
createShim(shims, binaryName) ==
  IF shims[binaryName] = "none"
    THEN [shims |-> [shims EXCEPT ![binaryName] = "jkl"], err |-> ""]
  ELSE IF shims[binaryName] = "file"
    THEN [shims |-> shims,
          err |-> "not overwriting existing incorrect shim " \o binaryName]
  ELSE IF shims[binaryName] = "jkl"
    THEN [shims |-> shims, err |-> ""]
  ELSE [shims |-> shims,
        err |-> "shim " \o binaryName \o " already exists but points to "
                  \o "another file"]

\* JKL.Install(specStr) for a specification whose download is the version
\* of the tool; the download and the extraction write outside the managed
\* directories.
InstallTool(managed, tool, version, failure) ==
  IF failure \in {"spec", "download", "extract"}
    THEN [managed |-> managed, installedVersion |-> "", err |-> failure]
  ELSE LET copied == CopyExecutableToCreatedDir(managed.installs, tool,
                                                version, failure)
           shim == createShim(managed.shims, tool)
       IN IF copied.err # ""
            THEN [managed |-> Managed(copied.installs, managed.shims),
                  installedVersion |-> "", err |-> copied.err]
          ELSE IF shim.err # ""
            THEN [managed |-> Managed(copied.installs, managed.shims),
                  installedVersion |-> "", err |-> shim.err]
          ELSE [managed |-> Managed(copied.installs, shim.shims),
                installedVersion |-> version, err |-> ""]

\* managedTool.path(version): the version, or the version with its "v"
\* toggled, whose binary exists; "" without one.
path(installs, tool, version) ==
  IF installs[<<tool, version>>] \in {"partial", "binary"} THEN version
  ELSE IF /\ <<tool, toggleVPrefix(version)>> \in DOMAIN installs
          /\ installs[<<tool, toggleVPrefix(version)>>]
               \in {"partial", "binary"}
    THEN toggleVPrefix(version)
  ELSE ""

\* managedTool.uninstallVersion(version): the binary and its directory
\* are removed; the shim is not touched.
uninstallVersion(managed, tool, version) ==
  LET found == path(managed.installs, tool, version)
  IN IF found = "" THEN managed
     ELSE Managed([managed.installs EXCEPT ![<<tool, found>>] = "none"],
                  managed.shims)

\* managedTool.uninstallAllVersions(): without a directory of a version
\* nothing is done; otherwise each listed version is uninstalled and what
\* is at the path of the shim is removed.
uninstallAllVersions(managed, tool) ==
  LET allVersions == {v \in ManagedVersions :
                        managed.installs[<<tool, v>>] # "none"}
  IN IF allVersions = {} THEN managed
     ELSE Managed([tv \in DOMAIN managed.installs |->
                     IF tv[1] = tool
                          /\ managed.installs[tv] \in {"partial", "binary"}
                       THEN "none"
                       ELSE managed.installs[tv]],
                  [managed.shims EXCEPT ![tool] = "none"])

\* JKL.Uninstall(toolNameAndVersion)
UninstallTool(managed, toolNameAndVersion) ==
  LET toolFields == Split(toolNameAndVersion, ":")
      toolName == toolFields[1]
      toolVersion == IF Len(toolFields) = 2 THEN toolFields[2] ELSE ""
  IN IF toolVersion = "" THEN uninstallAllVersions(managed, toolName)
     ELSE uninstallVersion(managed, toolName, toolVersion)

\* Nothing is installed; a file or a link that jkl did not make can be in
\* the shims directory.
InitInstall ==
  /\ releases = <<>>
  /\ assets = <<>>
  /\ files \in {Managed([tv \in ManagedTools \X ManagedVersions |-> "none"],
                        shims) :
                  shims \in [ManagedTools -> {"none", "file", "other"}]}
  /\ call = [op |-> "none", failed |-> FALSE]
  /\ result = NoCall

CallInstall ==
  \E tool \in ManagedTools, version \in ManagedVersions,
     failure \in InstallFailures :
    LET done == InstallTool(files, tool, version, failure)
    IN /\ call' = [op |-> "Install", tool |-> tool, version |-> version,
                   failure |-> failure, before |-> files,
                   failed |-> call.failed \/ done.err # ""]
       /\ result' = [installedVersion |-> done.installedVersion,
                     err |-> done.err]
       /\ files' = done.managed
       /\ UNCHANGED <<releases, assets>>

CallUninstall ==
  \E tool \in ManagedTools, version \in {""} \cup ManagedVersions :
    LET toolNameAndVersion ==
          IF version = "" THEN tool ELSE tool \o ":" \o version
    IN /\ call' = [op |-> "Uninstall",
                   toolNameAndVersion |-> toolNameAndVersion,
                   before |-> files, failed |-> call.failed]
       /\ result' = [err |-> ""]
       /\ files' = UninstallTool(files, toolNameAndVersion)
       /\ UNCHANGED <<releases, assets>>

NextInstall == CallInstall \/ CallUninstall

\* The installing and uninstalling of tools.
SpecInstall == InitInstall /\ [][NextInstall]_vars

\* The versions of the tool that have a directory.
InstalledVersions(managed, tool) ==
  {v \in ManagedVersions : managed.installs[<<tool, v>>] # "none"}

\* C24: after calls of Install and Uninstall that all returned without an
\* error, a tool has its shim exactly when a version of it is installed.
C24_ShimIffInstalled ==
  ~call.failed
    => \A tool \in ManagedTools :
         (files.shims[tool] = "jkl") <=> (InstalledVersions(files, tool) # {})

\* C25: a call of Install that returns an error leaves the installed
\* versions and the shims as they were.
C25_FailedInstallChangesNothing ==
  (call.op = "Install" /\ result.err # "")
    => /\ \A tool \in ManagedTools :
            InstalledVersions(files, tool)
              = InstalledVersions(call.before, tool)
       /\ files.shims = call.before.shims

=============================================================================
